---- MODULE Spec2Model ----
(***************************************************************************)
(* A model of the session / view / snapshot engine of gopls:               *)
(*   gopls/internal/lsp/cache/session.go    (Session, overlays, views)     *)
(*   gopls/internal/lsp/cache/workspace.go  (workspace module resolution)  *)
(*   gopls/internal/lsp/source/view.go      (interfaces, FileModification) *)
(* The View and snapshot types of package cache (view.go, snapshot.go) are *)
(* not part of the sources at hand; the few methods of them that session.go*)
(* calls are modelled from the design document and are marked as such.     *)
(***************************************************************************)
EXTENDS Integers, Sequences, FiniteSets, TLC

\* ------------------------------------------------------------------------
\* Bounds of the model
\* ------------------------------------------------------------------------

\* No behaviour creates more than MaxSnapshots snapshots.
MaxSnapshots == 4
\* No behaviour creates more than MaxViews views.
MaxViews == 3
\* The callers never hold more than MaxHeld release functions at a time.
MaxHeld == 1
\* The file system changes at most MaxDiskWrites times.
MaxDiskWrites == 1
\* The threads enter at most MaxCalls calls.
MaxCalls == 5

\* ------------------------------------------------------------------------
\* Paths, URIs and file contents
\* ------------------------------------------------------------------------

\* A span.URI is modelled by the sequence of its path components.
DirWs  == <<"ws">>
DirSub == <<"ws", "sub">>
DirX   == <<"x">>
FileA   == DirWs \o <<"a.go">>
FileB   == DirSub \o <<"b.go">>
FileC   == DirX \o <<"c.go">>
FileMod == DirWs \o <<"go.mod">>

\* Length in bytes of one path component.
CompLen(c) ==
  CASE c = "ws"     -> 2
    [] c = "sub"    -> 3
    [] c = "x"      -> 1
    [] c = "a.go"   -> 4
    [] c = "b.go"   -> 4
    [] c = "c.go"   -> 4
    [] c = "go.mod" -> 6
    [] c = "go.work" -> 7
    [] OTHER        -> 1

RECURSIVE PathLen(_)
PathLen(p) == IF p = <<>> THEN 0 ELSE 1 + CompLen(Head(p)) + PathLen(Tail(p))

\* len(uri) of the string "file://" + "/c1/c2/...".
URILen(p) == 7 + PathLen(p)

\* filepath.Base and filepath.Dir of a non-empty path.
Base(p) == p[Len(p)]
Dir(p)  == SubSeq(p, 1, Len(p) - 1)

IsPrefix(d, p) == Len(d) <= Len(p) /\ SubSeq(p, 1, Len(d)) = d

\* source.InDir(dir, path): path is dir or lies below it.
InDir(d, p) == IsPrefix(d, p)

\* isGoMod, isGoWork, isGoSum (workspace.go).
isGoMod(uri)  == Base(uri) = "go.mod"
isGoWork(uri) == Base(uri) = "go.work"
isGoSum(uri)  == Base(uri) = "go.sum" \/ Base(uri) = "go.work.sum"

\* File contents. NilText is a nil []byte, NoFile an unreadable file.
NilText == "nil"
NoFile  == "nofile"
Texts   == {"X", "Y"}

\* source.HashOf: sha256 of the bytes; injective on the contents of the model,
\* and a nil slice hashes as the empty slice does.
HashOf(text) == <<"sha256", IF text = NilText THEN "" ELSE text>>

\* No entry for a URI in a snapshot's files.
Unset == "unset"

\* source.FileAction
Open   == "Open"
Change == "Change"
Close  == "Close"
Save   == "Save"
Create == "Create"
Delete == "Delete"
InvalidateMetadata == "InvalidateMetadata"

\* source.FileKind and source.FileKindForLang
UnknownKind == "UnknownKind"
FileKindForLang(lang) ==
  CASE lang = "go"      -> "Go"
    [] lang = "go.mod"  -> "Mod"
    [] OTHER            -> UnknownKind

\* The kind a file name stands for when the overlay does not say.
KindByName(uri) ==
  CASE isGoMod(uri)  -> "Mod"
    [] isGoWork(uri) -> "Work"
    [] isGoSum(uri)  -> "Sum"
    [] OTHER         -> "Go"

\* source.FileModification
Mod(uri, action, onDisk, version, text, lang) ==
  [URI |-> uri, Action |-> action, OnDisk |-> onDisk,
   Version |-> version, Text |-> text, LanguageID |-> lang]

\* An absent map entry (overlays), a nil *View and a nil *snapshot.
NoOverlay == [none |-> TRUE]
NilView == 0
NilSnapshot == 0

\* type overlay (session.go); session and uri are the map key's.
Overlay(text, hash, version, kind, saved) ==
  [text |-> text, hash |-> hash, version |-> version, kind |-> kind, saved |-> saved]


\* ------------------------------------------------------------------------
\* The state
\* ------------------------------------------------------------------------

URIs    == {FileA, FileB, FileC, FileMod}
Folders == {DirWs, DirSub}
ViewIds == 1..MaxViews

VARIABLES
  views,            \* Session.views: the list of views (view ids)
  viewMap,          \* Session.viewMap: URI -> best view (NilView: no entry)
  overlays,         \* Session.overlays: URI -> overlay (NoOverlay: no entry)
  view,             \* the View objects ever created, in creation order
  snapshots,        \* the snapshot objects ever created, in creation order
  globalSnapshotID, \* the process-wide counter behind nextSnapshotID
  bg,               \* snapshots whose initialization goroutine still runs
  held,             \* the release functions callers hold and have not called
  disk,             \* the file system below the cache: URI -> content
  diskWrites,       \* how often the file system has changed
  crashed,          \* the process has panicked
  editor,           \* per URI, the text the editor last sent, or Closed
  last,             \* what the last Session operation was given and returned
  pc,               \* per thread, the call it is in and the place in it
  viewMu,           \* Session.viewMu: the thread that holds it
  overlayMu,        \* Session.overlayMu: the thread that holds it
  holding,          \* per thread, the mutexes it holds, in the order taken
  calls,            \* how many calls the threads have entered
  obs,              \* per thread, what it last read of a file
  workspaces,       \* the workspace objects ever created, in creation order
  maps,             \* the map[span.URI]struct{} objects the workspaces refer to
  contexts          \* the context.Context objects ever created, in creation order

sessionVars == <<views, viewMap, overlays, view, snapshots,
                 globalSnapshotID, bg, crashed>>
concVars == <<pc, viewMu, overlayMu, holding, calls, obs>>
wsVars == <<workspaces, maps>>
vars == <<views, viewMap, overlays, view, snapshots,
          globalSnapshotID, bg, held, disk, diskWrites, crashed, editor, last,
          concVars, wsVars, contexts>>

\* The part of the state the Session's methods read and write, as one value.
State ==
  [views |-> views, viewMap |-> viewMap, overlays |-> overlays, view |-> view,
   snapshots |-> snapshots,
   globalSnapshotID |-> globalSnapshotID, bg |-> bg, crashed |-> crashed]

SetState(st) ==
  /\ views' = st.views
  /\ viewMap' = st.viewMap
  /\ overlays' = st.overlays
  /\ view' = st.view
  /\ snapshots' = st.snapshots
  /\ globalSnapshotID' = st.globalSnapshotID
  /\ bg' = st.bg
  /\ crashed' = st.crashed

NoLast    == [op |-> "none"]
EmptyViewMap == [u \in URIs |-> NilView]

\* ------------------------------------------------------------------------
\* Files as the session sees them
\* ------------------------------------------------------------------------

\* Cache.getFile: the disk-backed handle. Read fails when the file is absent;
\* the handle's identity hashes what was read. (getFile itself is modelled
\* as total: it returns a handle also for a file it cannot read.)
DiskHandle(uri) ==
  [isOverlay |-> FALSE, text |-> disk[uri], hash |-> HashOf(disk[uri]),
   saved |-> TRUE, version |-> 0]

OverlayHandle(o) ==
  [isOverlay |-> TRUE, text |-> o.text, hash |-> o.hash,
   saved |-> o.saved, version |-> o.version]

\* Session.readOverlay and Session.GetFile on the overlay map ov.
readOverlay(ov, uri) == ov[uri]
GetFileFromDisk(ov, uri) == DiskHandle(uri)
GetFile(ov, uri) ==
  IF readOverlay(ov, uri) # NoOverlay
    THEN OverlayHandle(readOverlay(ov, uri))
    ELSE DiskHandle(uri)

\* fileExists through the session as file source.
fileExists(ov, uri) == uri \in DOMAIN disk /\ GetFile(ov, uri).text # NoFile

\* findWorkspaceModuleSource: the go.work, else the go.mod, found in the
\* folder or the nearest directory above it; <<>> when there is none.
AncestorsOrSelf(folder) == {SubSeq(folder, 1, k) : k \in 1..Len(folder)}
findRootPattern(ov, folder, basename) ==
  LET hits == {d \in AncestorsOrSelf(folder) : fileExists(ov, d \o <<basename>>)}
  IN IF hits = {} THEN <<>>
     ELSE (CHOOSE d \in hits : \A e \in hits : Len(e) <= Len(d)) \o <<basename>>
findWorkspaceModuleSource(ov, folder) ==
  IF findRootPattern(ov, folder, "go.work") # <<>>
    THEN findRootPattern(ov, folder, "go.work")
    ELSE findRootPattern(ov, folder, "go.mod")

\* ------------------------------------------------------------------------
\* Snapshots: reference counts
\* ------------------------------------------------------------------------

\* snapshot.Acquire: one more reference. Acquiring a snapshot that has been
\* torn down is a fatal error.
Acquire(st, i) ==
  IF st.snapshots[i].cancels > 0
    THEN [st EXCEPT !.crashed = TRUE]
    ELSE [st EXCEPT !.snapshots[i].refcount = @ + 1]

\* The release function Acquire returns: one reference less; the last one
\* tears the snapshot down, which cancels its background context and lets go
\* of what the snapshot holds. Releasing a reference that is not held is a
\* fatal error.
Release(st, i) ==
  IF st.snapshots[i].refcount = 0
    THEN [st EXCEPT !.crashed = TRUE]
    ELSE IF st.snapshots[i].refcount = 1
      THEN [st EXCEPT !.snapshots[i].refcount = 0, !.snapshots[i].cancels = @ + 1,
                      !.snapshots[i].files = [u \in URIs |-> Unset]]
      ELSE [st EXCEPT !.snapshots[i].refcount = @ - 1]

RECURSIVE ReleaseAll(_, _)
ReleaseAll(st, is) ==
  IF is = <<>> THEN st ELSE ReleaseAll(Release(st, Head(is)), Tail(is))

\* nextSnapshotID: atomic.AddUint64(&globalSnapshotID, 1).
nextSnapshotID(st) == st.globalSnapshotID + 1


\* ------------------------------------------------------------------------
\* Views
\* ------------------------------------------------------------------------

\* The snapshot createView makes: the given sequence ID, a fresh global ID,
\* no reference yet, no files.
createViewSnapshot(seqID, gid, v) ==
  [sequenceID |-> seqID, globalID |-> gid, view |-> v,
   refcount |-> 0, cancels |-> 0, files |-> [u \in URIs |-> Unset]]

\* The global ID createView gives the view's first snapshot.
createViewGlobalIDStale(st) == st.globalSnapshotID
createViewGlobalID(st) == nextSnapshotID(st)

\* The references createView takes on the new snapshot i: one saved in the
\* view, one passed to the initialization goroutine, one for the caller.
createViewAcquiresNoBg(st, i) == Acquire(Acquire(st, i), i)
createViewAcquires(st, i) == Acquire(Acquire(Acquire(st, i), i), i)

\* options.ExpandWorkspaceToModule, at its default.
ExpandWorkspaceToModule == TRUE

\* Session.createView. fail: getWorkspaceInformation, the search for the
\* workspace module source or newWorkspace returns an error. (The view's id,
\* the next value of the counter viewIndex, only names the view in logs; the
\* model names a view by its place among the views created.)
createView(st, folder, seqID, fail) ==
  LET st1 == st
  IN IF fail
       THEN [st |-> st1, v |-> NilView, snapshot |-> NilSnapshot, err |-> TRUE]
       ELSE
         LET rootSrc == findWorkspaceModuleSource(st.overlays, folder)
             root    == IF ExpandWorkspaceToModule /\ rootSrc # <<>>
                          THEN Dir(rootSrc) ELSE folder
             gid     == createViewGlobalID(st1)
             i       == Len(st.snapshots) + 1
             id      == Len(st.view) + 1
             v       == [folder |-> folder, rootURI |-> root, rootSrc |-> rootSrc,
                         snapshot |-> i, known |-> {},
                         lineage |-> id]
             st2     == [st1 EXCEPT !.globalSnapshotID = gid,
                                    !.snapshots = Append(@, createViewSnapshot(seqID, gid, id)),
                                    !.view = Append(@, v)]
             st3     == createViewAcquires(st2, i)
         IN [st |-> [st3 EXCEPT !.bg = @ \cup {i}], v |-> id,
             snapshot |-> i, err |-> FALSE]

\* View.contains: the URI lies below the view's root.
contains(vw, uri) == InDir(vw.rootURI, uri)

\* View.knownFile: the view has seen the file.
knownFile(vw, uri) == uri \in vw.known

\* View.relevantChange: the file is known to the view or lies in its scope.
relevantChange(vw, c) == knownFile(vw, c.URI) \/ contains(vw, c.URI)

\* View.canonicalURI(uri, true): the file joins the view's known files.
canonicalURI(st, v, uri) == [st EXCEPT !.view[v].known = @ \cup {uri}]

\* View.shutdown: the view gives up its reference to its snapshot.
shutdown(st, v) ==
  IF st.view[v].snapshot = NilSnapshot THEN st
  ELSE [Release(st, st.view[v].snapshot) EXCEPT !.view[v].snapshot = NilSnapshot]

\* The first loop of bestViewForURI over the views vs, longest so far.
RECURSIVE longestContaining(_, _, _, _)
longestContaining(st, uri, vs, longest) ==
  IF vs = <<>> THEN longest
  ELSE IF longest # NilView
          /\ URILen(st.view[longest].folder) > URILen(st.view[Head(vs)].folder)
    THEN longestContaining(st, uri, Tail(vs), longest)
  ELSE IF contains(st.view[Head(vs)], uri)
    THEN longestContaining(st, uri, Tail(vs), Head(vs))
    ELSE longestContaining(st, uri, Tail(vs), longest)

Min(S) == CHOOSE x \in S : \A y \in S : x <= y

bestViewForURIFirst(st, uri, vs) == vs[1]
\* bestViewForURI(uri, views), for a non-empty list of views.
bestViewForURI(st, uri, vs) ==
  LET longest == longestContaining(st, uri, vs, NilView)
      knowing == {k \in 1..Len(vs) : knownFile(st.view[vs[k]], uri)}
  IN IF longest # NilView THEN longest
     ELSE IF knowing # {} THEN vs[Min(knowing)]
     ELSE vs[1]

\* Session.viewOfLocked: the memoized best view of the URI.
viewOfLocked(st, uri) ==
  IF st.viewMap[uri] # NilView
    THEN [st |-> st, v |-> st.viewMap[uri], err |-> FALSE]
  ELSE IF Len(st.views) = 0
    THEN [st |-> st, v |-> NilView, err |-> TRUE]
  ELSE LET b == bestViewForURI(st, uri, st.views)
       IN [st |-> [st EXCEPT !.viewMap[uri] = b], v |-> b, err |-> FALSE]

\* removeElement(slice, index): the last element takes the place of the
\* index-th, and the slice loses its last cell.
removeElement(slice, index) ==
  SubSeq([slice EXCEPT ![index] = slice[Len(slice)]], 1, Len(slice) - 1)

\* The memo dropView leaves ("we always need to drop the view map").
dropViewMapKept(st) == st.viewMap
dropViewMap(st) == EmptyViewMap

\* Session.dropView: the memo is dropped; the view's cell is set to nil and
\* the view shut down. i = 0 stands for the -1 of a view that is not listed.
dropView(st, v) ==
  LET found == {k \in 1..Len(st.views) : st.views[k] = v}
      st1   == [st EXCEPT !.viewMap = dropViewMap(st)]
  IN IF found = {} THEN [st |-> st1, i |-> 0]
     ELSE [st |-> shutdown([st1 EXCEPT !.views[Min(found)] = NilView], v),
           i |-> Min(found)]

\* The sequence ID updateViewLocked hands to createView.
updateViewSeqIDZero(st, v) == 0
updateViewSeqID(st, v) == st.snapshots[st.view[v].snapshot].sequenceID

\* Session.updateViewLocked. The view has a snapshot (it is not shut down).
updateViewLocked(st, v, fail) ==
  LET seqID == updateViewSeqID(st, v)
      d     == dropView(st, v)
  IN IF d.i = 0 THEN [st |-> d.st, v |-> NilView, err |-> TRUE]
     ELSE
       LET c   == createView(d.st, st.view[v].folder, seqID, fail)
       IN IF c.err
            THEN [st |-> [c.st EXCEPT !.views = removeElement(@, d.i)],
                  v |-> NilView, err |-> TRUE]
            ELSE [st |-> [Release(c.st, c.snapshot)
                            EXCEPT !.views[d.i] = c.v,
                                   !.view[c.v].lineage = st.view[v].lineage],
                  v |-> c.v, err |-> FALSE]


\* ------------------------------------------------------------------------
\* Overlays
\* ------------------------------------------------------------------------

\* View.FileKind of an overlay: the overlay's kind, else what the name says.
FileKind(o, uri) == IF o.kind # UnknownKind THEN o.kind ELSE KindByName(uri)

\* Whether the bytes on disk hash to hash (the default branch of the switch
\* on c.Action in updateOverlays).
sameContentOnDiskExists(uri, hash) == disk[uri] # NoFile
sameContentOnDisk(uri, hash) ==
  disk[uri] # NoFile /\ DiskHandle(uri).hash = hash

\* The switch on c.Action that sets sameContentOnDisk.
savedFlagCompared(c, hash) == c.Action # Delete /\ sameContentOnDisk(c.URI, hash)
savedFlag(c, hash) ==
  CASE c.Action = Delete -> FALSE
    [] c.Action = Save   -> TRUE
    [] OTHER             -> sameContentOnDisk(c.URI, hash)

\* The test of a Save that carries text: the overlay's hash is not the
\* text's.
changedOnSaveNever(c, o, hash) == FALSE
changedOnSave(c, o, hash) == c.Text # NilText /\ o.hash # hash

\* One iteration of the loop of Session.updateOverlays: the change c applied
\* to the overlay map. err: the function returns an error at this change.
updateOverlay(st, c) ==
  LET o    == st.overlays[c.URI]
      ok   == o # NoOverlay
      keep == [st |-> st, err |-> FALSE]
      fail == [st |-> st, err |-> TRUE]
  IN IF c.Action = InvalidateMetadata THEN keep
     ELSE IF ~ok /\ c.OnDisk THEN keep
     ELSE IF c.Action # Open /\ ~ok THEN fail
     ELSE IF c.Action = Close
       THEN [st |-> [st EXCEPT !.overlays[c.URI] = NoOverlay], err |-> FALSE]
     ELSE
       LET kind    == IF c.Action = Open THEN FileKindForLang(c.LanguageID) ELSE o.kind
           fromOld == c.Text = NilText /\ (c.Action = Save \/ c.OnDisk)
       IN IF fromOld /\ ~ok THEN fail
          ELSE
            LET text    == IF fromOld THEN o.text ELSE c.Text
                version == IF c.OnDisk \/ c.Action = Save THEN o.version ELSE c.Version
                hash    == HashOf(text)
                saved   == savedFlag(c, hash)
                new     == Overlay(text, hash, version, kind, saved)
            IN IF c.Action = Save /\ changedOnSave(c, o, hash) THEN fail
               ELSE IF c.Action = Open
                 THEN LET r == viewOfLocked(st, c.URI)
                      IN IF r.err \/ FileKind(new, c.URI) = UnknownKind
                           THEN [st |-> r.st, err |-> TRUE]
                           ELSE [st |-> [r.st EXCEPT !.overlays[c.URI] = new],
                                 err |-> FALSE]
                 ELSE [st |-> [st EXCEPT !.overlays[c.URI] = new], err |-> FALSE]

\* Session.updateOverlays: the changes applied in order, up to the first one
\* that fails.
RECURSIVE updateOverlays(_, _)
updateOverlays(st, changes) ==
  IF changes = <<>> THEN [st |-> st, err |-> FALSE]
  ELSE LET r == updateOverlay(st, Head(changes))
       IN IF r.err THEN r ELSE updateOverlays(r.st, Tail(changes))

\* ------------------------------------------------------------------------
\* Invalidation
\* ------------------------------------------------------------------------

NoChange == [none |-> TRUE]

\* type fileChange (session.go)
fileChange(content, exists, fileHandle, isUnchanged) ==
  [content |-> content, exists |-> exists, fileHandle |-> fileHandle,
   isUnchanged |-> isUnchanged]

\* snapshot.clone: the successor of snapshot prev of view v under the changes:
\* the next sequence ID of the view, a fresh global ID, and the files of the
\* predecessor with the changed URIs overwritten or removed.
clone(st, prev, v, changed) ==
  [sequenceID |-> st.snapshots[prev].sequenceID + 1,
   globalID   |-> nextSnapshotID(st),
   view       |-> v,
   refcount   |-> 0,
   cancels    |-> 0,
   files      |-> [u \in URIs |->
                     IF changed[u] = NoChange THEN st.snapshots[prev].files[u]
                     ELSE IF changed[u].exists THEN changed[u].content
                     ELSE Unset]]

\* View.invalidateContent: the view's snapshot is replaced by its clone. The
\* view takes its reference to the new snapshot and installs it, then gives up
\* its reference to the old one; the caller gets a reference of its own.
invalidateContent(st, v, changed) ==
  LET prev == st.view[v].snapshot
      i    == Len(st.snapshots) + 1
      st1  == [st EXCEPT !.globalSnapshotID = nextSnapshotID(st),
                         !.snapshots = Append(@, clone(st, prev, v, changed))]
      st2  == [Acquire(st1, i) EXCEPT !.view[v].snapshot = i]
      st3  == Release(st2, prev)
  IN IF prev = NilSnapshot
       THEN [st |-> [st EXCEPT !.crashed = TRUE], snapshot |-> NilSnapshot]
       ELSE [st |-> Acquire(st3, i), snapshot |-> i]


\* ------------------------------------------------------------------------
\* Session.DidModifyFiles
\* ------------------------------------------------------------------------

\* checkRoots: some change names a go.mod or a go.work file.
checkRoots(changes) ==
  \E k \in 1..Len(changes) : isGoMod(changes[k].URI) \/ isGoWork(changes[k].URI)

\* The loop that re-creates the views whose root may have changed, from its
\* j-th iteration on. The loop ranges over the list as it was when the loop
\* began (n cells) and reads each cell when it gets there: a cell that
\* removeElement has emptied in the meantime holds nil, and reading the
\* folder of a nil view panics. failing: the folders createView fails for.
RECURSIVE checkRootsLoop(_, _, _, _)
checkRootsLoop(st, j, n, failing) ==
  IF j > n \/ st.crashed THEN st
  ELSE
    LET v == IF j <= Len(st.views) THEN st.views[j] ELSE NilView
    IN IF v = NilView THEN [st EXCEPT !.crashed = TRUE]
       ELSE IF findWorkspaceModuleSource(st.overlays, st.view[v].folder) # st.view[v].rootSrc
         THEN checkRootsLoop(updateViewLocked(st, v, st.view[v].folder \in failing).st,
                             j + 1, n, failing)
         ELSE checkRootsLoop(st, j + 1, n, failing)

\* The views of the list vs to which the change c is relevant, in list order.
RECURSIVE relevantViews(_, _, _)
relevantViews(st, vs, c) ==
  IF vs = <<>> THEN <<>>
  ELSE IF relevantChange(st.view[Head(vs)], c)
    THEN <<Head(vs)>> \o relevantViews(st, Tail(vs), c)
    ELSE relevantViews(st, Tail(vs), c)

\* The fileChange a view is handed for the change c: the overlay if the file
\* has one, else what the disk holds.
changeFor(st, c) ==
  LET unchanged == c.Action = Open \/ c.Action = Close
      fh == GetFile(st.overlays, c.URI)
  IN fileChange(fh.text, fh.text # NoFile, fh, unchanged)

\* The body of the loop over changedViews: each view learns the file and
\* gets the fileChange.
applyToFirstView(acc, vs, c) ==
  IF vs = <<>> THEN acc
  ELSE [acc EXCEPT !.st = canonicalURI(@, Head(vs), c.URI),
                   !.changed[Head(vs)][c.URI] = changeFor(acc.st, c)]
RECURSIVE applyToViews(_, _, _)
applyToViews(acc, vs, c) ==
  IF vs = <<>> THEN acc
  ELSE applyToViews(
         [acc EXCEPT !.st = canonicalURI(@, Head(vs), c.URI),
                     !.changed[Head(vs)][c.URI] = changeFor(acc.st, c)],
         Tail(vs), c)

\* The views a change relevant to no view is given to: none when it comes
\* from disk, else the best view of its URI.
assignedViewsAlways(c, best) == <<best>>
assignedViews(c, best) == IF c.OnDisk THEN <<>> ELSE <<best>>

\* The loop that collects the views affected by the changes.
\* acc = [st, changed: view -> URI -> fileChange, affected: URI -> views,
\*        force, err, log]; log notes for each change the views it was
\* relevant to and the views it was given to for want of a relevant one.
RECURSIVE collectViews(_, _)

\* The change c is relevant to the views relevant (not none).
collectRelevant(acc, c, relevant, rest) ==
  collectViews(
    applyToViews([acc EXCEPT !.affected[c.URI] = relevant,
                             !.log = Append(@, [relevant |-> relevant, given |-> <<>>])],
                 relevant, c),
    rest)

\* The change c is relevant to no view; r: what viewOfLocked returns for it.
collectAssigned(acc, c, r, given, rest) ==
  IF given = <<>>
    THEN collectViews([acc EXCEPT !.log = Append(@, [relevant |-> <<>>, given |-> <<>>])],
                      rest)
  ELSE IF r.err THEN [acc EXCEPT !.err = TRUE]
  ELSE collectViews(
         applyToViews([acc EXCEPT !.st = r.st, !.affected[c.URI] = given,
                                  !.log = Append(@, [relevant |-> <<>>, given |-> given])],
                      given, c),
         rest)

collectChange(acc, c, relevant, r, rest) ==
  IF relevant # <<>> THEN collectRelevant(acc, c, relevant, rest)
  ELSE collectAssigned(acc, c, r, assignedViews(c, r.v), rest)

collectViews(acc, changes) ==
  IF changes = <<>> \/ acc.err \/ acc.st.crashed THEN acc
  ELSE collectChange(
         [acc EXCEPT !.force = @ \/ Head(changes).Action = InvalidateMetadata],
         Head(changes),
         relevantViews(acc.st, acc.st.views, Head(changes)),
         viewOfLocked(acc.st, Head(changes).URI),
         Tail(changes))

NoChanges == [u \in URIs |-> NoChange]

\* The snapshot whose reference the release function that invalidateContent
\* returns gives up: the new snapshot, not the one it replaces.
invalidatedReleaseOld(prev, new) == prev
invalidatedRelease(prev, new) == new

\* releases = append(releases, release)
appendReleaseOnlyLast(releases, release) == <<release>>
appendRelease(releases, release) == Append(releases, release)

\* The loop over the map views: each affected view is invalidated, in the
\* order the map happens to be ranged over.
\* acc = [st, releases, viewToSnapshot].
RECURSIVE invalidateViews(_, _, _)
invalidateViews(acc, order, changed) ==
  IF order = <<>> \/ acc.st.crashed THEN acc
  ELSE
    LET prev == acc.st.view[Head(order)].snapshot
        r    == invalidateContent(acc.st, Head(order), changed[Head(order)])
    IN invalidateViews(
         [st |-> r.st,
          releases |-> appendRelease(acc.releases, invalidatedRelease(prev, r.snapshot)),
          viewToSnapshot |-> [acc.viewToSnapshot EXCEPT ![Head(order)] = r.snapshot]],
         Tail(order), changed)

\* The view whose snapshot a changed URI is reported under.
diagnoseViewFirst(st, uri, viewSlice) == viewSlice[1]
diagnoseView(st, uri, viewSlice) == bestViewForURI(st, uri, viewSlice)

\* The last loop: each changed URI goes under the snapshot of its best view
\* among the views affected by it. acc = [uris: snapshot -> URIs, panic].
RECURSIVE snapshotURIsLoop(_, _, _, _, _)
snapshotURIsLoop(acc, st, changes, affected, viewToSnapshot) ==
  IF changes = <<>> \/ acc.panic THEN acc
  ELSE
    LET uri == Head(changes).URI
        sn  == viewToSnapshot[diagnoseView(st, uri, affected[uri])]
    IN IF affected[uri] = <<>>
         THEN snapshotURIsLoop(acc, st, Tail(changes), affected, viewToSnapshot)
       ELSE IF sn = NilSnapshot THEN [acc EXCEPT !.panic = TRUE]
       ELSE snapshotURIsLoop([acc EXCEPT !.uris[sn] = Append(@, uri)],
                             st, Tail(changes), affected, viewToSnapshot)

\* The first half of DidModifyFiles: the overlays are updated, the views whose
\* root changed are re-created and the affected views collected.
\* Returns [st, changed, affected, force, err].
NoneAffected(st) ==
  [st |-> st, changed |-> [v \in 1..Len(st.view) |-> NoChanges],
   affected |-> [u \in URIs |-> <<>>], force |-> FALSE, err |-> FALSE,
   log |-> <<>>]

\* o: what updateOverlays returned.
didModifyRoots(o, changes, failing) ==
  IF o.err THEN [NoneAffected(o.st) EXCEPT !.err = TRUE]
  ELSE IF checkRoots(changes)
    THEN NoneAffected(checkRootsLoop(o.st, 1, Len(o.st.views), failing))
    ELSE NoneAffected(o.st)

didModifyCollect(st, changes, failing) ==
  collectViews(didModifyRoots(updateOverlays(st, changes), changes, failing), changes)

\* The views DidModifyFiles has a fileChange map for.
affectedSet(col) == {v \in DOMAIN col.changed : col.changed[v] # NoChanges}

\* The second half: the affected views are invalidated in the given order
\* and the changed URIs grouped by snapshot.
\* Returns [st, err, uris: snapshot -> URIs, release: the snapshots the
\* returned release function releases, affected].
didModifyFail(st, crash, col) ==
  [st |-> [st EXCEPT !.crashed = @ \/ crash], err |-> TRUE, uris |-> <<>>,
   release |-> <<>>, affected |-> col.affected, log |-> col.log,
   noSnapshot |-> FALSE, nilView |-> FALSE]

\* inv: what the loop over the affected views made; res: the grouping.
\* noSnapshot: the grouping found no snapshot for a view and panicked.
didModifyResult(inv, res, col) ==
  IF inv.st.crashed \/ res.panic
    THEN [didModifyFail(inv.st, TRUE, col) EXCEPT
            !.noSnapshot = ~inv.st.crashed /\ res.panic]
  ELSE [st |-> inv.st, err |-> FALSE, uris |-> res.uris,
        release |-> inv.releases, affected |-> col.affected, log |-> col.log,
        noSnapshot |-> FALSE, nilView |-> FALSE]

didModifyGroup(inv, changes, col) ==
  didModifyResult(
    inv,
    snapshotURIsLoop(
      [uris |-> [i \in 1..Len(inv.st.snapshots) |-> <<>>], panic |-> FALSE],
      inv.st, changes, col.affected, inv.viewToSnapshot),
    col)

\* nilView: the loop over the views whose root may have changed read the
\* folder of a nil view and panicked.
didModifyInvalidate(col, changes, order) ==
  IF col.err \/ col.st.crashed
    THEN [didModifyFail(col.st, FALSE, col) EXCEPT !.nilView = col.st.crashed]
  ELSE didModifyGroup(
         invalidateViews(
           [st |-> col.st, releases |-> <<>>,
            viewToSnapshot |-> [v \in 1..Len(col.st.view) |-> NilSnapshot]],
           order, col.changed),
         changes, col)

\* The orders in which a map with the keys S may be ranged over.
Orders(S) ==
  {s \in [1..Cardinality(S) -> S] : \A i, j \in 1..Cardinality(S) : s[i] = s[j] => i = j}


\* ------------------------------------------------------------------------
\* The modifications the protocol layer reports (source.FileModification):
\* the editor opens, changes, saves and closes files; the file watcher
\* reports files created, changed and deleted on disk, without text or version.
\* ------------------------------------------------------------------------

EditorURIs  == {FileA, FileC}
WatchedURIs == {FileA, FileB, FileMod}

EditorMods ==
  {Mod(u, Open, FALSE, 1, "X", "go") : u \in EditorURIs}
    \cup {Mod(u, Change, FALSE, 2, "Y", "") : u \in EditorURIs}
    \cup {Mod(u, Save, FALSE, -1, t, "") : u \in EditorURIs, t \in Texts \cup {NilText}}
    \cup {Mod(u, Close, FALSE, -1, NilText, "") : u \in EditorURIs}
DiskMods ==
  {Mod(u, a, TRUE, -1, NilText, "") : u \in WatchedURIs, a \in {Create, Change, Delete}}

\* ------------------------------------------------------------------------
\* The editor's own record of what it has open (what the session is told)
\* ------------------------------------------------------------------------

ListedViews(vs) == {vs[k] : k \in 1..Len(vs)} \ {NilView}
LiveViews == ListedViews(views)

Closed == "closed"
NotOpened == "unopened"

\* What the editor has open after the session has processed the changes.
RECURSIVE editorAfter(_, _)
editorAfter(ed, changes) ==
  IF changes = <<>> THEN ed
  ELSE LET c == Head(changes)
       IN editorAfter(
            IF c.OnDisk THEN ed
            ELSE IF c.Action \in {Open, Change} THEN [ed EXCEPT ![c.URI] = c.Text]
            ELSE IF c.Action = Close THEN [ed EXCEPT ![c.URI] = Closed]
            ELSE ed,
            Tail(changes))

\* The changes that updateOverlays has processed when it returns: all of
\* them, or those before the one it fails at.
processed(st, changes) ==
  LET ks == {k \in 0..Len(changes) : ~updateOverlays(st, SubSeq(changes, 1, k)).err}
  IN SubSeq(changes, 1, CHOOSE k \in ks : \A j \in ks : j <= k)

\* ------------------------------------------------------------------------
\* Threads and the two mutexes of the Session
\* ------------------------------------------------------------------------

Threads  == {"t1", "t2"}
NoThread == "none"
Idle     == [op |-> "idle"]
NoObs    == [uri |-> <<>>, text |-> NilText, isOverlay |-> FALSE,
             during |-> {}, snapshot |-> NilSnapshot]

\* No workspace has been created.
NoWorkspaces == workspaces = <<>> /\ maps = <<>>

\* No thread is in a call.
NoCalls ==
  /\ pc = [t \in Threads |-> Idle]
  /\ viewMu = NoThread
  /\ overlayMu = NoThread
  /\ holding = [t \in Threads |-> <<>>]
  /\ calls = 0
  /\ obs = [t \in Threads |-> NoObs]

\* ------------------------------------------------------------------------
\* The operations
\* ------------------------------------------------------------------------

\* The observed result of an operation is kept only when results are observed.
Observe(r) == IF last = NoLast THEN NoLast ELSE r

InBounds(st) ==
  /\ Len(st.view) <= MaxViews
  /\ Len(st.snapshots) <= MaxSnapshots

\* span.SameExistingFile: the two URIs name the same file of the file system.
\* The folders of the model are directories that exist, each under one name.
SameExistingFile(x, y) == x = y

\* The loop of NewView over s.views: some view of the list has the folder.
viewExistsLast(st, folder) ==
  /\ st.views # <<>>
  /\ SameExistingFile(st.view[st.views[Len(st.views)]].folder, folder)
viewExists(st, folder) ==
  \E k \in 1..Len(st.views) : SameExistingFile(st.view[st.views[k]].folder, folder)

\* Session.NewView(ctx, name, folder, options). The caller keeps the release
\* function it gets (keep) or calls it at once.
NewView(folder, fail, keep) ==
  /\ ~crashed
  /\ LET exists == viewExists(State, folder)
         c      == createView(State, folder, 0, fail)
     IN IF exists
          THEN /\ UNCHANGED <<sessionVars, held>>
               /\ last' = Observe([op |-> "NewView", err |-> "ErrViewExists",
                                   folder |-> folder])
        ELSE IF c.err
          THEN /\ InBounds(c.st)
               /\ SetState(c.st)
               /\ UNCHANGED held
               /\ last' = Observe([op |-> "NewView", err |-> "error",
                                   folder |-> folder])
        ELSE /\ InBounds(c.st)
             /\ IF keep
                  THEN /\ Len(held) < MaxHeld
                       /\ SetState([c.st EXCEPT !.views = Append(@, c.v),
                                                !.viewMap = EmptyViewMap])
                       /\ held' = Append(held, <<c.snapshot>>)
                  ELSE /\ SetState(Release([c.st EXCEPT !.views = Append(@, c.v),
                                                        !.viewMap = EmptyViewMap],
                                           c.snapshot))
                       /\ UNCHANGED held
             /\ last' = Observe([op |-> "NewView", err |-> "", v |-> c.v,
                                 snapshot |-> c.snapshot, folder |-> folder])
  /\ UNCHANGED <<disk, diskWrites, editor, concVars, wsVars, contexts>>

\* Session.RemoveView(view)
RemoveView(v) ==
  /\ ~crashed
  /\ v \in 1..Len(view)
  /\ LET d == dropView(State, v)
     IN SetState(IF d.i = 0 THEN d.st
                 ELSE [d.st EXCEPT !.views = removeElement(@, d.i)])
  /\ last' = Observe([op |-> "RemoveView", v |-> v])
  /\ UNCHANGED <<held, disk, diskWrites, editor, concVars, wsVars, contexts>>

\* Session.updateView(ctx, view, options), for a view that is not shut down.
UpdateView(v, fail) ==
  /\ ~crashed
  /\ v \in LiveViews
  /\ LET r == updateViewLocked(State, v, fail)
     IN /\ InBounds(r.st)
        /\ SetState(r.st)
        /\ last' = Observe([op |-> "updateView", old |-> v, v |-> r.v, err |-> r.err])
  /\ UNCHANGED <<held, disk, diskWrites, editor, concVars, wsVars, contexts>>

\* Session.ViewOf(uri)
ViewOf(uri) ==
  /\ ~crashed
  /\ LET r == viewOfLocked(State, uri)
     IN /\ SetState(r.st)
        /\ last' = Observe([op |-> "ViewOf", uri |-> uri, v |-> r.v, err |-> r.err,
                            fresh |-> viewMap[uri] = NilView])
  /\ UNCHANGED <<held, disk, diskWrites, editor, concVars, wsVars, contexts>>

\* Session.Shutdown(ctx)
RECURSIVE shutdownAll(_, _)
shutdownAll(st, vs) ==
  IF vs = <<>> THEN st ELSE shutdownAll(shutdown(st, Head(vs)), Tail(vs))

Shutdown ==
  /\ ~crashed
  /\ views # <<>>
  /\ SetState(shutdownAll([State EXCEPT !.views = <<>>, !.viewMap = EmptyViewMap], views))
  /\ last' = Observe([op |-> "Shutdown"])
  /\ UNCHANGED <<held, disk, diskWrites, editor, concVars, wsVars, contexts>>

\* DidModifyFiles returns r: the caller keeps the release function (keep), or
\* calls it at once if there is one.
didModifyReturn(r, changes, keep) ==
  /\ InBounds(r.st)
  /\ IF keep /\ ~r.err
       THEN /\ Len(held) < MaxHeld
            /\ SetState(r.st)
            /\ held' = Append(held, r.release)
       ELSE /\ SetState(ReleaseAll(r.st, r.release))
            /\ UNCHANGED held
  /\ last' = Observe([op |-> "DidModifyFiles", changes |-> changes,
                      err |-> r.err, uris |-> r.uris,
                      release |-> r.release, affected |-> r.affected,
                      log |-> r.log, before |-> Len(snapshots),
                      noSnapshot |-> r.noSnapshot, nilView |-> r.nilView])

didModifyOrders(col, changes, keep) ==
  \E order \in Orders(affectedSet(col)) :
    didModifyReturn(didModifyInvalidate(col, changes, order), changes, keep)

\* Session.DidModifyFiles(ctx, changes). failing: the folders for which
\* createView fails during the call.
DidModifyFiles(changes, failing, keep) ==
  /\ ~crashed
  /\ failing # {} => checkRoots(changes)
  /\ didModifyOrders(didModifyCollect(State, changes, failing), changes, keep)
  /\ editor' = editorAfter(editor, processed(State, changes))
  /\ UNCHANGED <<disk, diskWrites, concVars, wsVars, contexts>>

\* Session.ModifyFiles(ctx, changes): DidModifyFiles is called, the release
\* function it returns is called, and its error is returned. With an error
\* DidModifyFiles returns a nil release function, and calling it panics.
\* r: what DidModifyFiles returns.
modifyFilesReturn(r, changes) ==
  /\ InBounds(r.st)
  /\ IF r.err
       THEN SetState([r.st EXCEPT !.crashed = TRUE])
       ELSE SetState(ReleaseAll(r.st, r.release))
  /\ UNCHANGED held
  /\ last' = Observe([op |-> "ModifyFiles", changes |-> changes,
                      did |-> IF r.st.crashed THEN "panic"
                              ELSE IF r.err THEN "error" ELSE "nil",
                      ret |-> IF r.st.crashed \/ r.err THEN "panic" ELSE "nil"])

modifyFilesOrders(col, changes) ==
  \E order \in Orders(affectedSet(col)) :
    modifyFilesReturn(didModifyInvalidate(col, changes, order), changes)

ModifyFiles(changes) ==
  /\ ~crashed
  /\ modifyFilesOrders(didModifyCollect(State, changes, {}), changes)
  /\ editor' = editorAfter(editor, processed(State, changes))
  /\ UNCHANGED <<disk, diskWrites, concVars, wsVars, contexts>>

\* View.Snapshot(ctx): the current snapshot of a view with one more reference.
ViewSnapshot(v) ==
  /\ ~crashed
  /\ v \in LiveViews
  /\ Len(held) < MaxHeld
  /\ SetState(Acquire(State, view[v].snapshot))
  /\ held' = Append(held, <<view[v].snapshot>>)
  /\ last' = Observe([op |-> "Snapshot", v |-> v, snapshot |-> view[v].snapshot])
  /\ UNCHANGED <<disk, diskWrites, editor, concVars, wsVars, contexts>>

\* Snapshot.GetFile(ctx, uri) on the current snapshot of a view: the file
\* becomes part of the snapshot, if it is not yet, and known to the view.
SnapshotGetFile(v, uri) ==
  /\ ~crashed
  /\ v \in LiveViews
  /\ SetState([State EXCEPT
       !.view[v].known = @ \cup {uri},
       !.snapshots[view[v].snapshot].files[uri] =
          IF @ # Unset \/ GetFile(overlays, uri).text = NoFile THEN @
          ELSE GetFile(overlays, uri).text])
  /\ last' = Observe([op |-> "GetFile", v |-> v, uri |-> uri])
  /\ UNCHANGED <<held, disk, diskWrites, editor, concVars, wsVars, contexts>>

\* A caller calls a release function it holds.
CallRelease(k) ==
  /\ ~crashed
  /\ k \in 1..Len(held)
  /\ SetState(ReleaseAll(State, held[k]))
  /\ held' = SubSeq(held, 1, k - 1) \o SubSeq(held, k + 1, Len(held))
  /\ last' = Observe([op |-> "release", snapshots |-> held[k]])
  /\ UNCHANGED <<disk, diskWrites, editor, concVars, wsVars, contexts>>

\* The goroutine createView starts ends: initialize returns and the
\* goroutine's reference is released.
InitializeDone(i) ==
  /\ ~crashed
  /\ i \in bg
  /\ SetState([Release(State, i) EXCEPT !.bg = @ \ {i}])
  /\ UNCHANGED <<held, disk, diskWrites, editor, last, concVars, wsVars, contexts>>

\* The file system changes under the server.
DiskWrite(uri, text) ==
  /\ ~crashed
  /\ diskWrites < MaxDiskWrites
  /\ disk[uri] # text
  /\ disk' = [disk EXCEPT ![uri] = text]
  /\ diskWrites' = diskWrites + 1
  /\ UNCHANGED <<sessionVars, held, editor, last, concVars, wsVars, contexts>>

Init ==
  /\ views = <<>>
  /\ viewMap = EmptyViewMap
  /\ overlays = [u \in URIs |-> NoOverlay]
  /\ view = <<>>
  /\ snapshots = <<>>
  /\ globalSnapshotID = 0
  /\ bg = {}
  /\ held = <<>>
  /\ disk = [u \in URIs |-> IF u \in {FileA, FileB} THEN "X" ELSE NoFile]
  /\ diskWrites = 0
  /\ crashed = FALSE
  /\ editor = [u \in URIs |-> NotOpened]
  /\ last = NoLast
  /\ NoCalls
  /\ NoWorkspaces
  /\ contexts = <<>>

\* What the file watcher reports in the behaviours of Spec: a file that lies
\* in the scope of both folders has changed on disk.
WatchBatches == {<<Mod(FileB, Change, TRUE, -1, NilText, "")>>}

\* Views come and go, the file watcher reports changes, and callers take and
\* release snapshots.
Next ==
  \/ \E f \in Folders, fail \in BOOLEAN : NewView(f, fail, TRUE)
  \/ \E v \in ViewIds : RemoveView(v)
  \/ \E v \in ViewIds, fail \in BOOLEAN : UpdateView(v, fail)
  \/ Shutdown
  \/ \E b \in WatchBatches, keep \in BOOLEAN : DidModifyFiles(b, {}, keep)
  \/ \E v \in ViewIds : ViewSnapshot(v)
  \/ \E k \in 1..MaxHeld : CallRelease(k)
  \/ \E i \in 1..MaxSnapshots : InitializeDone(i)

Spec == Init /\ [][Next]_vars

\* The editor works on one file of the workspace folder and one outside it
\* while the first changes on disk: what the editor and the file watcher
\* report in the behaviours of SpecOverlay: one change, or two to one file.
OverlayMods ==
  EditorMods \cup {m \in DiskMods : m.URI = FileA}
OverlayBatches ==
  {<<m>> : m \in OverlayMods}
    \cup {b \in {<<m1, m2>> : m1 \in OverlayMods, m2 \in OverlayMods} :
             b[1].URI = b[2].URI}

NextOverlay ==
  \/ NewView(DirWs, FALSE, TRUE)
  \/ \E b \in OverlayBatches : DidModifyFiles(b, {}, FALSE)
  \/ \E t \in Texts \cup {NoFile} : DiskWrite(FileA, t)
  \/ \E k \in 1..MaxHeld : CallRelease(k)

SpecOverlay == Init /\ [][NextOverlay]_vars

\* The behaviours of SpecRouting: views of the two folders, with or without
\* a go.mod file in the outer one; a file outside the folders is opened and
\* closed in the editor, and it and a file of the outer folder change on
\* disk, one change at a time or one on disk and then another; views load
\* the file outside. What the operations return is kept.
RoutingMods ==
  {Mod(FileC, Open, FALSE, 1, "X", "go"), Mod(FileC, Close, FALSE, -1, NilText, "")}
    \cup {Mod(u, Change, TRUE, -1, NilText, "") : u \in {FileA, FileC}}
RoutingBatches ==
  {<<m>> : m \in RoutingMods}
    \cup {<<m1, m2>> : m1 \in {m \in RoutingMods : m.OnDisk}, m2 \in RoutingMods}

InitRouting ==
  /\ views = <<>>
  /\ viewMap = EmptyViewMap
  /\ overlays = [u \in URIs |-> NoOverlay]
  /\ view = <<>>
  /\ snapshots = <<>>
  /\ globalSnapshotID = 0
  /\ bg = {}
  /\ held = <<>>
  /\ \E m \in {"X", NoFile} :
       disk = [u \in URIs |-> IF u \in {FileA, FileB} THEN "X"
                              ELSE IF u = FileMod THEN m ELSE NoFile]
  /\ diskWrites = 0
  /\ crashed = FALSE
  /\ editor = [u \in URIs |-> NotOpened]
  /\ last = [op |-> "init"]
  /\ NoCalls
  /\ NoWorkspaces
  /\ contexts = <<>>

NextRouting ==
  \/ \E f \in Folders : NewView(f, FALSE, TRUE)
  \/ \E v \in ViewIds : SnapshotGetFile(v, FileC)
  \/ \E u \in {FileA, FileC} : ViewOf(u)
  \/ \E b \in RoutingBatches : DidModifyFiles(b, {}, FALSE)
  \/ \E k \in 1..MaxHeld : CallRelease(k)

SpecRouting == InitRouting /\ [][NextRouting]_vars

\* The behaviours of SpecRelease: views of the two folders; the go.mod file
\* of the outer folder appears or disappears; the file watcher reports a
\* change of a file of the inner folder, of the go.mod file, or of both; the
\* callers keep the release functions they are given and call them later.
\* What the operations return is kept.
ReleaseBatches ==
  {<<Mod(FileB, Change, TRUE, -1, NilText, "")>>,
   <<Mod(FileMod, Change, TRUE, -1, NilText, "")>>,
   <<Mod(FileB, Change, TRUE, -1, NilText, ""), Mod(FileMod, Change, TRUE, -1, NilText, "")>>}

NextRelease ==
  \/ \E f \in Folders : NewView(f, FALSE, TRUE)
  \/ \E t \in {"X", NoFile} : DiskWrite(FileMod, t)
  \/ \E b \in ReleaseBatches : DidModifyFiles(b, {}, TRUE)
  \/ \E k \in 1..MaxHeld : CallRelease(k)
  \/ \E i \in 1..MaxSnapshots : InitializeDone(i)

SpecRelease == InitRouting /\ [][NextRelease]_vars

\* The behaviours of SpecViews: views are created, removed and created
\* anew, go.mod of the workspace folder comes and goes on disk and the
\* file watcher reports it, and what the operations return is kept.
ViewBatches == {<<Mod(FileMod, Change, TRUE, -1, NilText, "")>>}

NextViews ==
  \/ \E f \in Folders : NewView(f, FALSE, FALSE)
  \/ \E v \in ViewIds : RemoveView(v)
  \/ \E v \in ViewIds, fail \in BOOLEAN : UpdateView(v, fail)
  \/ \E t \in {"X", NoFile} : DiskWrite(FileMod, t)
  \/ \E b \in ViewBatches : DidModifyFiles(b, {}, FALSE)

SpecViews == InitRouting /\ [][NextViews]_vars

\* The behaviours of SpecEdits: a file of the workspace folder holds one text
\* or another on disk, or is absent; the editor opens, changes, saves, closes
\* and deletes it, with texts that match the overlay or the disk or neither,
\* and the file watcher reports it changed, one change at a time; or the
\* editor opens it and changes a file it has not opened, in one call. What
\* the operations return is kept.
EditMods ==
  {Mod(FileA, Open, FALSE, 1, t, "go") : t \in Texts}
    \cup {Mod(FileA, Change, FALSE, 2, "Y", ""), Mod(FileA, Change, FALSE, 3, "X", "")}
    \cup {Mod(FileA, Save, FALSE, v, NilText, "") : v \in {-1, 7}}
    \cup {Mod(FileA, Save, FALSE, -1, t, "") : t \in Texts}
    \cup {Mod(FileA, a, FALSE, -1, NilText, "") : a \in {Close, Delete}}
    \cup {Mod(FileA, Change, TRUE, -1, NilText, "")}
EditBatches ==
  {<<m>> : m \in EditMods}
    \cup {<<Mod(FileA, Open, FALSE, 1, "X", "go"), Mod(FileC, Change, FALSE, 2, "Y", "")>>}

InitEdits ==
  /\ views = <<>>
  /\ viewMap = EmptyViewMap
  /\ overlays = [u \in URIs |-> NoOverlay]
  /\ view = <<>>
  /\ snapshots = <<>>
  /\ globalSnapshotID = 0
  /\ bg = {}
  /\ held = <<>>
  /\ \E t \in Texts \cup {NoFile} :
       disk = [u \in URIs |-> IF u = FileA THEN t ELSE IF u = FileB THEN "X" ELSE NoFile]
  /\ diskWrites = 0
  /\ crashed = FALSE
  /\ editor = [u \in URIs |-> NotOpened]
  /\ last = [op |-> "init"]
  /\ NoCalls
  /\ NoWorkspaces
  /\ contexts = <<>>

NextEdits ==
  \/ NewView(DirWs, FALSE, TRUE)
  \/ \E b \in EditBatches : DidModifyFiles(b, {}, FALSE)
  \/ \E k \in 1..MaxHeld : CallRelease(k)

SpecEdits == InitEdits /\ [][NextEdits]_vars
\*
\* A call is a program: the mutexes it locks and unlocks and, between them,
\* the steps that read or change the Session. What a step does is what the
\* operation does in one piece above. Files are read through the session
\* (Session.GetFile, which locks overlayMu) by createView and by the
\* workspace of a snapshot; the caller holds viewMu meanwhile, so what is
\* read does not depend on when, and the program has the reads, as one
\* section under overlayMu, after the step that uses them.
\* ------------------------------------------------------------------------

lock(m)   == <<"lock", m>>
unlock(m) == <<"unlock", m>>
do(step)  == <<"do", step>>

NewViewProgram ==
  <<lock("viewMu"), do("NewView"),
    lock("overlayMu"), unlock("overlayMu"), unlock("viewMu")>>
RemoveViewProgram ==
  <<lock("viewMu"), do("RemoveView"), unlock("viewMu")>>
updateViewProgram ==
  <<lock("viewMu"), do("updateView"),
    lock("overlayMu"), unlock("overlayMu"), unlock("viewMu")>>
ViewOfProgram ==
  <<lock("viewMu"), do("ViewOf"), unlock("viewMu")>>
ViewsProgram ==
  <<lock("viewMu"), unlock("viewMu")>>
DidModifyFilesProgram ==
  <<lock("viewMu"),
    lock("overlayMu"), do("updateOverlays"), unlock("overlayMu"),
    do("checkRoots"), lock("overlayMu"), unlock("overlayMu"),
    do("invalidate"), unlock("viewMu")>>
GetFileProgram ==
  <<lock("overlayMu"), do("readOverlay"), unlock("overlayMu")>>
OverlaysLockingViews ==
  <<lock("overlayMu"), lock("viewMu"), unlock("viewMu"), unlock("overlayMu")>>
OverlaysProgram ==
  <<lock("overlayMu"), unlock("overlayMu")>>
ShutdownProgram ==
  <<lock("viewMu"), do("Shutdown: views"), unlock("viewMu"), do("Shutdown: shutdown")>>
FileWatchingGlobPatternsProgram ==
  <<lock("viewMu"), do("FileWatchingGlobPatterns"),
    lock("overlayMu"), unlock("overlayMu"), unlock("viewMu")>>
SnapshotProgram ==
  <<do("View.Snapshot")>>

Program(op) ==
  CASE op = "NewView"        -> NewViewProgram
    [] op = "RemoveView"     -> RemoveViewProgram
    [] op = "updateView"     -> updateViewProgram
    [] op = "ViewOf"         -> ViewOfProgram
    [] op = "Views"          -> ViewsProgram
    [] op = "DidModifyFiles" -> DidModifyFilesProgram
    [] op = "GetFile"        -> GetFileProgram
    [] op = "Overlays"       -> OverlaysProgram
    [] op = "Shutdown"       -> ShutdownProgram
    [] op = "FileWatchingGlobPatterns" -> FileWatchingGlobPatternsProgram
    [] op = "View.Snapshot"  -> SnapshotProgram

\* The place of an instruction in a program.
Place(prog, instr) == CHOOSE k \in 1..Len(prog) : prog[k] = instr

Running(t) == pc[t] # Idle
Instr(t)   == Program(pc[t].op)[pc[t].k]
At(t, step) == Running(t) /\ Instr(t) = do(step)

\* Thread t goes on at place k of its program, or returns.
Goto(t, k) ==
  pc' = [pc EXCEPT ![t] = IF k > Len(Program(pc[t].op)) THEN Idle
                          ELSE [@ EXCEPT !.k = k]]

\* In the behaviours of SpecConc there is the outer folder with its file,
\* which the editor opens and changes, and its go.mod file.
ConcBatches ==
  {<<Mod(FileA, Open, FALSE, 1, "X", "go")>>,
   <<Mod(FileA, Change, FALSE, 2, "Y", "")>>,
   <<Mod(FileMod, Change, TRUE, -1, NilText, "")>>}

ConcCalls ==
  {[op |-> "NewView", arg |-> DirWs]}
    \cup {[op |-> o, arg |-> v] :
            o \in {"RemoveView", "updateView", "View.Snapshot"}, v \in LiveViews}
    \cup {[op |-> o, arg |-> FileA] : o \in {"ViewOf", "GetFile"}}
    \cup {[op |-> "DidModifyFiles", arg |-> b] : b \in ConcBatches}
    \cup {[op |-> o, arg |-> <<>>] :
            o \in {"Views", "Overlays", "Shutdown", "FileWatchingGlobPatterns"}}

\* A thread enters a call.
Call(t) ==
  /\ ~crashed
  /\ pc[t] = Idle
  /\ calls < MaxCalls
  /\ calls' = calls + 1
  /\ \E c \in ConcCalls :
       /\ pc' = [pc EXCEPT ![t] = [op |-> c.op, k |-> 1, arg |-> c.arg, err |-> FALSE]]
       /\ obs' = [obs EXCEPT ![t] = IF c.op = "View.Snapshot" THEN @ ELSE NoObs]
  /\ UNCHANGED <<sessionVars, held, disk, diskWrites, editor, last,
                 viewMu, overlayMu, holding, wsVars, contexts>>

\* sync.Mutex.Lock: the thread goes on when the mutex is free, and holds it.
Lock(t) ==
  /\ ~crashed
  /\ Running(t)
  /\ Instr(t)[1] = "lock"
  /\ IF Instr(t)[2] = "viewMu"
       THEN viewMu = NoThread /\ viewMu' = t /\ UNCHANGED overlayMu
       ELSE overlayMu = NoThread /\ overlayMu' = t /\ UNCHANGED viewMu
  /\ holding' = [holding EXCEPT ![t] = Append(@, Instr(t)[2])]
  /\ Goto(t, pc[t].k + 1)
  /\ UNCHANGED <<sessionVars, held, disk, diskWrites, editor, last, calls, obs, wsVars, contexts>>

\* sync.Mutex.Unlock
Unlock(t) ==
  /\ ~crashed
  /\ Running(t)
  /\ Instr(t)[1] = "unlock"
  /\ IF Instr(t)[2] = "viewMu"
       THEN viewMu' = NoThread /\ UNCHANGED overlayMu
       ELSE overlayMu' = NoThread /\ UNCHANGED viewMu
  /\ holding' = [holding EXCEPT ![t] = SelectSeq(@, LAMBDA m : m # Instr(t)[2])]
  /\ Goto(t, pc[t].k + 1)
  /\ UNCHANGED <<sessionVars, held, disk, diskWrites, editor, last, calls, obs, wsVars, contexts>>

\* What a step leaves alone besides the Session's state and the thread's place.
StepFrame ==
  UNCHANGED <<held, disk, diskWrites, last, viewMu, overlayMu, holding, calls, wsVars, contexts>>


\* The last instruction of the program of t: the deferred unlock.
Deferred(t) == Len(Program(pc[t].op))

\* NewView between Lock and Unlock; the caller releases its snapshot at once.
newViewDone(c) ==
  /\ InBounds(c.st)
  /\ SetState(Release([c.st EXCEPT !.views = Append(@, c.v),
                                   !.viewMap = EmptyViewMap], c.snapshot))
DoNewView(t) ==
  /\ ~crashed
  /\ At(t, "NewView")
  /\ IF viewExists(State, pc[t].arg)
       THEN UNCHANGED sessionVars /\ Goto(t, Deferred(t))
       ELSE newViewDone(createView(State, pc[t].arg, 0, FALSE)) /\ Goto(t, pc[t].k + 1)
  /\ UNCHANGED <<editor, obs>>
  /\ StepFrame

\* RemoveView between Lock and Unlock.
DoRemoveView(t) ==
  /\ ~crashed
  /\ At(t, "RemoveView")
  /\ LET d == dropView(State, pc[t].arg)
     IN SetState(IF d.i = 0 THEN d.st
                 ELSE [d.st EXCEPT !.views = removeElement(@, d.i)])
  /\ Goto(t, pc[t].k + 1)
  /\ UNCHANGED <<editor, obs>>
  /\ StepFrame

\* updateView between Lock and Unlock: updateViewLocked, which panics when
\* the view has been shut down.
updateViewDone(t, r) ==
  /\ InBounds(r.st)
  /\ SetState(r.st)
  /\ Goto(t, IF r.err THEN Deferred(t) ELSE pc[t].k + 1)
DoUpdateView(t) ==
  /\ ~crashed
  /\ At(t, "updateView")
  /\ IF view[pc[t].arg].snapshot = NilSnapshot
       THEN SetState([State EXCEPT !.crashed = TRUE]) /\ UNCHANGED pc
       ELSE updateViewDone(t, updateViewLocked(State, pc[t].arg, FALSE))
  /\ UNCHANGED <<editor, obs>>
  /\ StepFrame

\* ViewOf between Lock and Unlock.
DoViewOf(t) ==
  /\ ~crashed
  /\ At(t, "ViewOf")
  /\ SetState(viewOfLocked(State, pc[t].arg).st)
  /\ Goto(t, pc[t].k + 1)
  /\ UNCHANGED <<editor, obs>>
  /\ StepFrame

\* DidModifyFiles: updateOverlays between its Lock and its Unlock.
updateOverlaysDone(t, o) ==
  /\ SetState(o.st)
  /\ pc' = [pc EXCEPT ![t] = [@ EXCEPT !.k = @ + 1, !.err = o.err]]
DoUpdateOverlays(t) ==
  /\ ~crashed
  /\ At(t, "updateOverlays")
  /\ updateOverlaysDone(t, updateOverlays(State, pc[t].arg))
  /\ editor' = editorAfter(editor, processed(State, pc[t].arg))
  /\ UNCHANGED obs
  /\ StepFrame

\* DidModifyFiles from the return of updateOverlays to the end of the loop
\* over s.views: it returns the error of updateOverlays, or re-creates the
\* views whose root has changed.
checkRootsDone(t, st) ==
  /\ InBounds(st)
  /\ SetState(st)
  /\ Goto(t, pc[t].k + 1)
DoCheckRoots(t) ==
  /\ ~crashed
  /\ At(t, "checkRoots")
  /\ IF pc[t].err
       THEN UNCHANGED sessionVars /\ Goto(t, Deferred(t))
     ELSE IF checkRoots(pc[t].arg)
       THEN checkRootsDone(t, checkRootsLoop(State, 1, Len(views), {}))
     ELSE UNCHANGED sessionVars /\ Goto(t, Place(Program(pc[t].op), do("invalidate")))
  /\ UNCHANGED <<editor, obs>>
  /\ StepFrame

\* The writers that have updated the overlay of the URI and have not yet
\* invalidated the views.
Writing(uri) ==
  {w \in Threads :
     /\ Running(w)
     /\ pc[w].op = "DidModifyFiles"
     /\ pc[w].k > Place(DidModifyFilesProgram, do("updateOverlays"))
     /\ pc[w].k <= Place(DidModifyFilesProgram, do("invalidate"))
     /\ ~pc[w].err
     /\ \E k \in 1..Len(pc[w].arg) : pc[w].arg[k].URI = uri /\ ~pc[w].arg[k].OnDisk}

\* DidModifyFiles from the collection of the affected views to its return;
\* the caller calls the release function at once.
invalidateDone(r) ==
  /\ InBounds(r.st)
  /\ SetState(ReleaseAll(r.st, r.release))
invalidateOrders(t, col) ==
  \E order \in Orders(affectedSet(col)) :
    invalidateDone(didModifyInvalidate(col, pc[t].arg, order))
DoInvalidate(t) ==
  /\ ~crashed
  /\ At(t, "invalidate")
  /\ invalidateOrders(t, collectViews(NoneAffected(State), pc[t].arg))
  /\ Goto(t, pc[t].k + 1)
  /\ obs' = [u \in Threads |-> [obs[u] EXCEPT !.during = @ \ {t}]]
  /\ UNCHANGED editor
  /\ StepFrame

\* Session.GetFile between the Lock and the Unlock of readOverlay: the reader
\* notes what it is handed.
DoReadOverlay(t) ==
  /\ ~crashed
  /\ At(t, "readOverlay")
  /\ obs' = [obs EXCEPT ![t] =
       [uri |-> pc[t].arg, text |-> GetFile(overlays, pc[t].arg).text,
        isOverlay |-> GetFile(overlays, pc[t].arg).isOverlay,
        during |-> Writing(pc[t].arg), snapshot |-> NilSnapshot]]
  /\ Goto(t, pc[t].k + 1)
  /\ UNCHANGED <<sessionVars, editor>>
  /\ StepFrame

\* Shutdown between Lock and Unlock: the views are taken off the session.
DoShutdownViews(t) ==
  /\ ~crashed
  /\ At(t, "Shutdown: views")
  /\ SetState([State EXCEPT !.views = <<>>, !.viewMap = EmptyViewMap])
  /\ pc' = [pc EXCEPT ![t] = [@ EXCEPT !.k = @ + 1, !.arg = views]]
  /\ UNCHANGED <<editor, obs>>
  /\ StepFrame

\* Shutdown after Unlock: the views taken are shut down.
DoShutdownShutdown(t) ==
  /\ ~crashed
  /\ At(t, "Shutdown: shutdown")
  /\ SetState(shutdownAll(State, pc[t].arg))
  /\ Goto(t, pc[t].k + 1)
  /\ UNCHANGED <<editor, obs>>
  /\ StepFrame

\* FileWatchingGlobPatterns between Lock and Unlock: the snapshot of each
\* view is acquired, asked for its patterns and released.
DoFileWatchingGlobPatterns(t) ==
  /\ ~crashed
  /\ At(t, "FileWatchingGlobPatterns")
  /\ Goto(t, IF views = <<>> THEN Deferred(t) ELSE pc[t].k + 1)
  /\ UNCHANGED <<sessionVars, editor, obs>>
  /\ StepFrame

\* View.Snapshot: the current snapshot of the view, under the view's own
\* mutex; a view that has been shut down panics. The reader notes the
\* snapshot and releases it.
DoSnapshot(t) ==
  /\ ~crashed
  /\ At(t, "View.Snapshot")
  /\ IF view[pc[t].arg].snapshot = NilSnapshot
       THEN SetState([State EXCEPT !.crashed = TRUE]) /\ UNCHANGED <<pc, obs>>
       ELSE /\ UNCHANGED sessionVars
            /\ obs' = [obs EXCEPT ![t].snapshot = view[pc[t].arg].snapshot]
            /\ Goto(t, pc[t].k + 1)
  /\ UNCHANGED editor
  /\ StepFrame

\* Two threads call the operations of the Session, in any interleaving.
NextConc ==
  \E t \in Threads :
    \/ Call(t)
    \/ Lock(t)
    \/ Unlock(t)
    \/ DoNewView(t)
    \/ DoRemoveView(t)
    \/ DoUpdateView(t)
    \/ DoViewOf(t)
    \/ DoUpdateOverlays(t)
    \/ DoCheckRoots(t)
    \/ DoInvalidate(t)
    \/ DoReadOverlay(t)
    \/ DoShutdownViews(t)
    \/ DoShutdownShutdown(t)
    \/ DoFileWatchingGlobPatterns(t)
    \/ DoSnapshot(t)

SpecConc == Init /\ [][NextConc]_vars

\* ------------------------------------------------------------------------
\* Readers and writers
\* ------------------------------------------------------------------------

\* Thread t has read the overlay of a file that a call of DidModifyFiles had
\* just written, and then obtained the current snapshot of a view the file
\* is relevant to, before that call invalidated the view.
ReadAhead(t) ==
  /\ obs[t].isOverlay
  /\ obs[t].during # {}
  /\ obs[t].snapshot # NilSnapshot
  /\ contains(view[snapshots[obs[t].snapshot].view], obs[t].uri)

\* C2: a reader that sees, through Session.GetFile, the overlay that a call
\* of DidModifyFiles in progress has written never obtains as the current
\* snapshot of a view one that this call has not yet invalidated.
C2_NoNewOverlayOnStaleSnapshot ==
  \A t \in Threads : ~ReadAhead(t)

\* The mutex thread t waits for, if any.
Wanted(t) ==
  IF Running(t) /\ Instr(t)[1] = "lock" THEN {Instr(t)[2]} ELSE {}
Holder(m) == IF m = "viewMu" THEN viewMu ELSE overlayMu
WaitsFor(t, u) == \E m \in Wanted(t) : Holder(m) = u

\* C3: a thread that holds both mutexes of the Session has taken viewMu
\* first; no thread waits for viewMu while it holds overlayMu; no thread
\* waits for a mutex it holds, and no two threads wait for each other.
C3_LockOrder ==
  /\ \A t \in Threads :
       /\ holding[t] \in {<<>>, <<"viewMu">>, <<"overlayMu">>, <<"viewMu", "overlayMu">>}
       /\ ~("viewMu" \in Wanted(t) /\ overlayMu = t)
       /\ viewMu = t <=> \E k \in 1..Len(holding[t]) : holding[t][k] = "viewMu"
       /\ overlayMu = t <=> \E k \in 1..Len(holding[t]) : holding[t][k] = "overlayMu"
  /\ \A t, u \in Threads : ~(WaitsFor(t, u) /\ WaitsFor(u, t))

\* One thread holds both mutexes, in DidModifyFiles, while the other, which
\* holds none, waits for overlayMu in GetFile.
C3_Witness ==
  \E t, u \in Threads :
    /\ holding[t] = <<"viewMu", "overlayMu">>
    /\ pc[t].op = "DidModifyFiles"
    /\ holding[u] = <<>>
    /\ Running(u)
    /\ pc[u].op = "GetFile"
    /\ WaitsFor(u, t)

\* ------------------------------------------------------------------------
\* Overlays and the disk
\* ------------------------------------------------------------------------

\* C1: for a file the editor has opened and not closed since, GetFile
\* returns the overlay with the text of the editor's last Open or Change,
\* whatever the disk holds; for a file that is not open (never opened, or
\* closed since) it returns the disk-backed handle of the cache.
C1_OverlayPrecedence ==
  \A u \in URIs :
    IF editor[u] \in {Closed, NotOpened}
      THEN GetFile(overlays, u) = DiskHandle(u)
      ELSE /\ GetFile(overlays, u).isOverlay
           /\ GetFile(overlays, u).text = editor[u]

\* One file is open with a text that differs from what the disk holds, the
\* disk having changed since; another was opened and has been closed.
C1_Witness ==
  /\ editor[FileA] \in Texts /\ disk[FileA] \in Texts /\ diskWrites > 0
  /\ editor[FileA] # disk[FileA]
  /\ GetFile(overlays, FileA).text = editor[FileA]
  /\ editor[FileC] = Closed

\* ------------------------------------------------------------------------
\* Which view a file belongs to
\* ------------------------------------------------------------------------

Range(q) == {q[k] : k \in 1..Len(q)}

\* The places of the list of views whose view contains, or knows, the URI.
Containing(u) == {k \in 1..Len(views) : contains(view[views[k]], u)}
Knowing(u) == {k \in 1..Len(views) : knownFile(view[views[k]], u)}

\* DidModifyFiles has just returned without an error.
Modified == last.op = "DidModifyFiles" /\ ~last.err

\* The snapshots that list the URI in the result of DidModifyFiles.
ListedUnder(u) == {i \in 1..Len(last.uris) : u \in Range(last.uris[i])}

\* The views the k-th change was relevant to or was given to.
ViewsOfChange(k) == Range(last.log[k].relevant) \cup Range(last.log[k].given)

\* The views some change to the URI was relevant to or was given to.
ViewsOfURI(u) ==
  UNION {ViewsOfChange(k) : k \in {j \in 1..Len(last.log) : last.changes[j].URI = u}}

\* C8: in the result of DidModifyFiles a changed URI that was relevant to,
\* or was given to, some view is listed under exactly one snapshot: the
\* current snapshot, made by this call, of the view that bestViewForURI
\* picks among the views affected by the URI. A URI that affected no view is
\* listed under none.
C8_OneSnapshotPerURI ==
  Modified =>
    \A k \in 1..Len(last.changes) :
      LET u == last.changes[k].URI
      IN IF ViewsOfURI(u) # {}
           THEN /\ Range(last.affected[u]) \subseteq ViewsOfURI(u)
                /\ last.affected[u] # <<>>
                /\ ListedUnder(u) =
                     {view[bestViewForURI(State, u, last.affected[u])].snapshot}
                /\ \A i \in ListedUnder(u) : i > last.before
           ELSE ListedUnder(u) = {}

\* A URI affected two views, and the view it is listed under is not the
\* first of them.
C8_Witness ==
  /\ Modified
  /\ \E u \in URIs :
       /\ Len(last.affected[u]) = 2
       /\ ListedUnder(u) = {view[last.affected[u][2]].snapshot}
       /\ ListedUnder(u) # {view[last.affected[u][1]].snapshot}

\* C9: bestViewForURI picks, when some view of the list contains the URI,
\* a containing view whose folder is longest among the containing views;
\* else, when some view knows the URI, the first view of the list that
\* knows it; else the first view of the list. ViewOf returns that view for
\* a URI it has no memo for.
C9_BestView ==
  /\ views # <<>> =>
       \A u \in URIs :
         LET b == bestViewForURI(State, u, views)
         IN IF Containing(u) # {}
              THEN /\ \E k \in Containing(u) : views[k] = b
                   /\ \A k \in Containing(u) :
                        URILen(view[views[k]].folder) <= URILen(view[b].folder)
            ELSE IF Knowing(u) # {} THEN b = views[Min(Knowing(u))]
            ELSE b = views[1]
  /\ (last.op = "ViewOf" /\ last.fresh /\ ~last.err) =>
       last.v = bestViewForURI(State, last.uri, views)

\* ViewOf has just picked, for a URI that two views contain, the one with the
\* longer folder, which is not the first of the list; and for another URI,
\* that no view contains, a view that is not the first knows it.
C9_Witness ==
  /\ last.op = "ViewOf" /\ last.fresh /\ ~last.err
  /\ Cardinality(Containing(last.uri)) = 2
  /\ last.v = views[2]
  /\ URILen(view[views[2]].folder) > URILen(view[views[1]].folder)
  /\ \E u \in URIs :
       Containing(u) = {} /\ Knowing(u) = {2} /\ bestViewForURI(State, u, views) = views[2]

\* The views whose current snapshot the last call made.
Invalidated == {v \in 1..Len(view) : view[v].snapshot > last.before}

\* What a view is handed for a file: the text GetFile returns, if any.
Handed(u) ==
  IF GetFile(overlays, u).text = NoFile THEN Unset ELSE GetFile(overlays, u).text

\* The k-th change, from the editor and relevant to no view, was given to
\* the best view of its URI, which knows the file now.
GivenToBest(k) ==
  LET u == last.changes[k].URI
  IN /\ views # <<>>
     /\ last.log[k].given = <<viewMap[u]>>
     /\ viewMap[u] = bestViewForURI(State, u, views)
     /\ knownFile(view[viewMap[u]], u)
     /\ ~last.err =>
          /\ viewMap[u] \in Invalidated
          /\ snapshots[view[viewMap[u]].snapshot].files[u] = Handed(u)

\* C10 as stated: the URI of a change from disk that is relevant to no view
\* is absent from the result.
C10_DroppedURIAbsent ==
  Modified =>
    \A k \in 1..Len(last.log) :
      (last.log[k].relevant = <<>> /\ last.changes[k].OnDisk) =>
        ListedUnder(last.changes[k].URI) = {}

\* C10, amended: a change that is relevant to no view is given to no view
\* when it comes from disk: the views invalidated are those that other
\* changes are relevant or given to, and its URI is absent from the result
\* unless another change of the call to the same URI affects a view. A
\* change from the editor that is relevant to no view is given to one view,
\* the best view of its URI, which learns the file and whose new snapshot
\* holds the file as changed; with no view in the session the call fails.
C10_UnclaimedChanges ==
  last.op = "DidModifyFiles" =>
    /\ \A k \in 1..Len(last.log) :
         last.log[k].relevant = <<>> =>
           IF last.changes[k].OnDisk
             THEN /\ last.log[k].given = <<>>
                  /\ (Modified /\ ViewsOfURI(last.changes[k].URI) = {}) =>
                       ListedUnder(last.changes[k].URI) = {}
             ELSE GivenToBest(k)
    /\ Modified => Invalidated = UNION {ViewsOfChange(k) : k \in 1..Len(last.log)}
    /\ (last.err /\ ~crashed) =>
         \/ Len(last.log) = 0
         \/ views = <<>> /\ Len(last.log) < Len(last.changes)

\* A call with a change from disk that no view claimed and was dropped, and a
\* change from the editor that no view claimed and the first view was given.
C10_Witness ==
  /\ Modified
  /\ Len(last.log) = 2
  /\ last.log[1] = [relevant |-> <<>>, given |-> <<>>]
  /\ last.changes[1].OnDisk
  /\ last.log[2].relevant = <<>> /\ last.log[2].given # <<>>
  /\ last.changes[1].URI # last.changes[2].URI
  /\ ListedUnder(last.changes[1].URI) = {}
  /\ ListedUnder(last.changes[2].URI) # {}

\* ------------------------------------------------------------------------
\* References and identifiers of snapshots
\* ------------------------------------------------------------------------

\* How often the release functions h release snapshot i.
HeldCount(h, i) ==
  Cardinality({kj \in {<<k, j>> : k \in 1..Len(h), j \in 1..MaxSnapshots} :
                 kj[2] <= Len(h[kj[1]]) /\ h[kj[1]][kj[2]] = i})

\* The references to snapshot i that have not been released: the one a view
\* keeps in its snapshot field, the one of the initialization goroutine and
\* those behind the release functions callers hold.
Outstanding(i) ==
  Cardinality({v \in 1..Len(view) : view[v].snapshot = i})
    + (IF i \in bg THEN 1 ELSE 0)
    + HeldCount(held, i)

SnapshotIds == 1..Len(snapshots)

\* C4: a snapshot is torn down at most once, and it has been torn down
\* exactly when no reference to it is outstanding: neither the view's own nor
\* the initialization goroutine's nor one a caller acquired and has not
\* released. The references counted are those outstanding, so the snapshot
\* createView has just made counts three.
C4_RefcountSafety ==
  \A i \in SnapshotIds :
    /\ snapshots[i].cancels <= 1
    /\ snapshots[i].cancels = 1 <=> Outstanding(i) = 0
    /\ snapshots[i].refcount = Outstanding(i)

\* A snapshot of createView has been torn down after its three references
\* were released, while another still has all three.
C4_Witness ==
  \E i, j \in SnapshotIds :
    /\ snapshots[i].cancels = 1 /\ snapshots[i].sequenceID = 0
    /\ snapshots[j].cancels = 0 /\ snapshots[j].refcount = 3
    /\ j \in bg /\ HeldCount(held, j) = 1

Lineage(i) == view[snapshots[i].view].lineage

\* C7 as stated: along a lineage the sequence IDs grow strictly, also from
\* the last snapshot of a view to the first snapshot of the view that
\* updateView puts in its place.
C7_StrictAlongLineage ==
  \A i, j \in SnapshotIds :
    (i < j /\ Lineage(i) = Lineage(j)) =>
      snapshots[i].sequenceID < snapshots[j].sequenceID

\* The first snapshot of its view among the snapshots created.
FirstOfView(j) == \A i \in SnapshotIds : snapshots[i].view = snapshots[j].view => j <= i

\* C7, amended: along a lineage the sequence IDs never decrease; they grow
\* strictly among the snapshots of one view; and the first snapshot of a
\* view that updateView puts in place of another has the sequence ID of the
\* last snapshot before it in the lineage, not a larger one.
C7_SequenceIDs ==
  \A i, j \in SnapshotIds :
    (i < j /\ Lineage(i) = Lineage(j)) =>
      /\ snapshots[i].sequenceID <= snapshots[j].sequenceID
      /\ snapshots[i].view = snapshots[j].view =>
           snapshots[i].sequenceID < snapshots[j].sequenceID
      /\ (FirstOfView(j) /\ \A k \in SnapshotIds :
                               (i < k /\ k < j) => Lineage(k) # Lineage(j)) =>
           snapshots[i].sequenceID = snapshots[j].sequenceID

\* A view was invalidated and then re-created in place: the first snapshot
\* of the new view has the sequence ID of the last snapshot of the old one.
C7_Witness ==
  \E i, j, k \in SnapshotIds :
    /\ i < j /\ j < k
    /\ snapshots[i].view = snapshots[j].view
    /\ snapshots[j].view # snapshots[k].view
    /\ Lineage(j) = Lineage(k)
    /\ snapshots[i].sequenceID = 0
    /\ snapshots[j].sequenceID = 1
    /\ snapshots[k].sequenceID = 1

\* ------------------------------------------------------------------------
\* The release function of DidModifyFiles
\* ------------------------------------------------------------------------

\* The views the last call of DidModifyFiles invalidated: those some change
\* was relevant or given to.
AffectedViews == UNION {ViewsOfChange(k) : k \in 1..Len(last.log)}

\* The release function returned stands for one reference to the current
\* snapshot of each affected view, which the call made, and for no other.
OnePerAffectedView ==
  /\ Range(last.release) = {view[v].snapshot : v \in AffectedViews}
  /\ Len(last.release) = Cardinality(AffectedViews)
  /\ \A v \in AffectedViews : view[v].snapshot > last.before

\* C11: the release function that a successful DidModifyFiles returns holds
\* one reference to the new snapshot of each affected view and none to any
\* other snapshot; calling it lowers the count of each of these snapshots by
\* one and no other count, without a fatal error, and then every snapshot
\* counts exactly the references still outstanding.
C11_ReleaseOncePerView ==
  /\ [](Modified => OnePerAffectedView)
  /\ [][(Modified /\ last'.op = "release" /\ last'.snapshots = last.release) =>
         /\ ~crashed'
         /\ \A i \in SnapshotIds :
              /\ snapshots'[i].refcount =
                   snapshots[i].refcount
                     - (IF \E v \in AffectedViews : view[v].snapshot = i THEN 1 ELSE 0)
              /\ snapshots'[i].refcount =
                   Cardinality({v \in 1..Len(view') : view'[v].snapshot = i})
                     + (IF i \in bg' THEN 1 ELSE 0) + HeldCount(held', i)]_vars

\* The release function of a call that invalidated two views has been called.
C11_Witness ==
  /\ last.op = "release"
  /\ Len(last.snapshots) = 2
  /\ \A k \in 1..2 :
       /\ snapshots[last.snapshots[k]].sequenceID > 0
       /\ snapshots[last.snapshots[k]].refcount = 1
       /\ view[snapshots[last.snapshots[k]].view].snapshot = last.snapshots[k]

\* ------------------------------------------------------------------------
\* What a change does to the overlay of its file
\* ------------------------------------------------------------------------

\* What updateOverlays makes of the one change c in the state at hand.
Updated(c) == updateOverlays(State, <<c>>)

\* The last call of DidModifyFiles was given the one change c.
LastChange(c) == last.op = "DidModifyFiles" /\ last.changes = <<c>>

\* The saves the editor sends.
Saves == {c \in EditMods : c.Action = Save}

\* The save carries text that does not hash as the overlay of its file does.
ChangedOnSave(c) ==
  /\ overlays[c.URI] # NoOverlay
  /\ c.Text # NilText
  /\ HashOf(c.Text) # overlays[c.URI].hash

\* C12: a Save that carries text whose hash is not that of the overlay of
\* its file makes updateOverlays return an error and leaves the overlays as
\* they are; DidModifyFiles, given such a Save, has returned an error.
C12_SaveMismatchRejected ==
  \A c \in Saves :
    ChangedOnSave(c) =>
      /\ Updated(c).err
      /\ Updated(c).st.overlays = overlays
      /\ LastChange(c) => last.err

\* DidModifyFiles was given a Save with a text other than that of the
\* overlay and has returned an error; the overlay holds its text.
C12_Witness ==
  \E c \in Saves :
    /\ LastChange(c)
    /\ last.err
    /\ ChangedOnSave(c)
    /\ overlays[c.URI].text = "X" /\ c.Text = "Y"

\* The save carries no text, or text that hashes as the overlay does.
SameOnSave(c) ==
  /\ overlays[c.URI] # NoOverlay
  /\ c.Text = NilText \/ HashOf(c.Text) = overlays[c.URI].hash

\* C13: a Save of an open file without text, or with text that hashes as the
\* overlay does, succeeds in updateOverlays and gives the file an overlay
\* with the text, hash, version and kind it had and saved = true; no other
\* overlay changes. After DidModifyFiles was given such a Save the
\* overlay is saved.
C13_SaveKeepsOverlay ==
  \A c \in Saves :
    SameOnSave(c) =>
      /\ ~Updated(c).err
      /\ Updated(c).st.overlays = [overlays EXCEPT ![c.URI].saved = TRUE]
      /\ LastChange(c) => overlays[c.URI].saved

\* A Save was accepted for an overlay whose text is not what the disk holds
\* and whose version is not the one the Save carries.
C13_Witness ==
  \E c \in Saves :
    /\ LastChange(c)
    /\ ~last.err
    /\ c.Version = 7
    /\ overlays[c.URI].saved
    /\ overlays[c.URI].version = 2
    /\ overlays[c.URI].text # disk[c.URI]

\* C14: a Save that leaves the content of the overlay as it is, and that
\* DidModifyFiles has handed to a view, was handed as a change with
\* isUnchanged set. (The overlays are those the call read the change from.)
C14_SaveHandedUnchanged ==
  \A c \in Saves :
    (LastChange(c) /\ ~last.err /\ SameOnSave(c) /\ ViewsOfChange(1) # {}) =>
      changeFor(State, c).isUnchanged

\* The editor's changes of kind Open and Change.
Edits == {c \in EditMods : ~c.OnDisk /\ c.Action \in {Open, Change}}

\* updateOverlays accepts an Open of a file some view takes and a Change of
\* a file that has an overlay.
Accepted(c) ==
  \/ c.Action = Open /\ views # <<>>
  \/ c.Action = Change /\ overlays[c.URI] # NoOverlay

\* The file of c can be read on disk and what is read hashes as the text
\* of c does.
OnDiskAs(c) == disk[c.URI] # NoFile /\ HashOf(disk[c.URI]) = HashOf(c.Text)

\* The text, version and hash of overlay o are those of c, and it is saved
\* exactly when the disk holds the text.
OverlayOf(c, o) ==
  /\ o # NoOverlay
  /\ o.text = c.Text
  /\ o.version = c.Version
  /\ o.hash = HashOf(c.Text)
  /\ o.saved <=> OnDiskAs(c)

\* C15: an Open or Change from the editor that updateOverlays accepts gives
\* the file an overlay with the text and version supplied, the hash of that
\* text, and saved = true exactly when the file can be read on disk and the
\* disk content hashes as the text does; after a call of DidModifyFiles with
\* such a change that returned no error the overlay of the file is that one.
C15_EditOverlay ==
  \A c \in Edits :
    /\ Accepted(c) =>
         /\ ~Updated(c).err
         /\ OverlayOf(c, Updated(c).st.overlays[c.URI])
    /\ (LastChange(c) /\ ~last.err) => OverlayOf(c, overlays[c.URI])

\* A Change gave the overlay, opened with another text and not saved, the
\* text the disk holds, and the overlay is saved.
C15_Witness ==
  \E c \in Edits :
    /\ LastChange(c)
    /\ ~last.err
    /\ c.Action = Change
    /\ overlays[c.URI].version = c.Version
    /\ overlays[c.URI].saved
    /\ disk[c.URI] = "Y"

\* The step is a call of DidModifyFiles whose changes include one from the
\* editor, other than an Open, to a file that has no overlay and that no
\* earlier change of the call opens.
UnopenedStep ==
  /\ last'.op = "DidModifyFiles"
  /\ \E k \in 1..Len(last'.changes) :
       LET c == last'.changes[k]
       IN /\ ~c.OnDisk
          /\ c.Action \in {Change, Save, Close, Delete}
          /\ overlays[c.URI] = NoOverlay
          /\ \A j \in 1..(k - 1) : last'.changes[j].URI # c.URI

\* C16: a call of DidModifyFiles with a change from the editor, other than an
\* Open, to a file without overlay stops the program and changes no overlay.
C16_UnopenedFailsLoudly ==
  [][UnopenedStep => (crashed' /\ overlays' = overlays)]_vars

\* ------------------------------------------------------------------------
\* The folders of the views
\* ------------------------------------------------------------------------

\* The step is a call of NewView for a folder that a view of the list has.
NewViewOfExisting ==
  /\ last'.op = "NewView"
  /\ last' # last
  /\ viewExists(State, last'.folder)

\* C17: NewView for the folder of a view of the session returns
\* ErrViewExists and leaves the views as they are; and no two views of the
\* list have the same folder, whatever NewView, RemoveView, updateView
\* and DidModifyFiles were called before.
C17_OneViewPerFolder ==
  /\ [](\A i, j \in 1..Len(views) :
          i # j => ~SameExistingFile(view[views[i]].folder, view[views[j]].folder))
  /\ [][NewViewOfExisting =>
          (last'.err = "ErrViewExists" /\ views' = views /\ view' = view)]_vars

\* NewView was refused for the folder of the first of two views, the second
\* of which was created anew by updateView or DidModifyFiles.
C17_Witness ==
  /\ last.op = "NewView"
  /\ last.err = "ErrViewExists"
  /\ Len(views) = 2
  /\ view[views[1]].folder = last.folder
  /\ views[2] = 3

\* ------------------------------------------------------------------------
\* The memo of ViewOf
\* ------------------------------------------------------------------------

\* C18: a step that changes the list of views leaves the memo empty, and
\* while no thread holds viewMu every entry of the memo is a view of the
\* list.
C18_MemoOfListedViews ==
  /\ [](viewMu = NoThread =>
          \A u \in URIs : viewMap[u] # NilView => viewMap[u] \in Range(views))
  /\ [][views' # views => viewMap' = EmptyViewMap]_vars

\* No thread holds viewMu, the first view has left the list, and the memo
\* holds the view that took its place.
C18_Witness ==
  /\ viewMu = NoThread
  /\ views = <<2>>
  /\ viewMap[FileA] = 2

\* ------------------------------------------------------------------------
\* The workspace of a view (workspace.go)
\* ------------------------------------------------------------------------

\* workspaceSource
legacyWorkspace     == "legacy"
goplsModWorkspace   == "gopls.mod"
goWorkWorkspace     == "go.work"
fileSystemWorkspace == "file system"

\* The empty span.URI.
NoURI == <<>>

\* The files newWorkspace looks at: the manifests of the root, a go.work
\* elsewhere for GOWORK to name, and the go.mod files they list.
RootWork     == DirWs \o <<"go.work">>
RootGopls    == DirWs \o <<"gopls.mod">>
ExplicitWork == DirX \o <<"go.work">>
SubMod       == DirSub \o <<"go.mod">>
XMod         == DirX \o <<"go.mod">>
WorkspaceURIs == {RootWork, RootGopls, ExplicitWork, FileMod, SubMod, XMod}

\* A path written in a manifest: absolute, or relative.
AbsPath(p) == [abs |-> TRUE, path |-> p]
RelPath(p) == [abs |-> FALSE, path |-> p]

\* What the manifests hold: text that does not parse, or directives.
Unparsable == "bad"
WorkWs     == "go 1.18; use /ws"
WorkXSub   == "go 1.18; use /x; use ./sub"
WorkNoGo   == "use ./sub"
GoplsSub   == "replace b => ./sub"
GoplsVers  == "replace b => /x v1"

\* modfile.ParseWork: the use directives and the go directive of a go.work.
ParseWork(contents) ==
  CASE contents = WorkWs   -> [err |-> FALSE, Use |-> {AbsPath(DirWs)}, Go |-> "1.18"]
    [] contents = WorkXSub -> [err |-> FALSE, Use |-> {AbsPath(DirX), RelPath(<<"sub">>)},
                               Go |-> "1.18"]
    [] contents = WorkNoGo -> [err |-> FALSE, Use |-> {RelPath(<<"sub">>)}, Go |-> ""]
    [] OTHER               -> [err |-> TRUE, Use |-> {}, Go |-> ""]

\* modfile.Parse: the replace directives of a gopls.mod.
Parse(contents) ==
  CASE contents = GoplsSub  -> [err |-> FALSE,
                                Replace |-> {[Path |-> RelPath(<<"sub">>), Version |-> ""]}]
    [] contents = GoplsVers -> [err |-> FALSE,
                                Replace |-> {[Path |-> AbsPath(DirX), Version |-> "v1"]}]
    [] OTHER                -> [err |-> TRUE, Replace |-> {}]

\* A *modfile.File that is nil, and what the parse functions return on error.
NilModFile  == [nil |-> TRUE]
ParseFailed == [err |-> TRUE, file |-> NilModFile, modFiles |-> {}]

\* uriForSource
uriForSourceRoot(root, explicitGowork, src) ==
  IF src = goplsModWorkspace THEN root \o <<"gopls.mod">> ELSE root \o <<"go.work">>
uriForSource(root, explicitGowork, src) ==
  CASE src = goplsModWorkspace -> root \o <<"gopls.mod">>
    [] src = goWorkWorkspace   ->
         IF explicitGowork # NoURI THEN explicitGowork ELSE root \o <<"go.work">>
    [] OTHER                   -> NoURI

\* absolutePath
absolutePath(root, path) == IF path.abs THEN path.path ELSE root \o path.path

\* A go.mod that replaces a module by a version of another.
ModReplacing == "R"

\* buildWorkspaceModFile: reads the go.mod of every module; the file built
\* replaces every module by its directory and keeps the replace directives
\* of the modules.
buildWorkspaceModFile(modFiles) ==
  [err  |-> \E m \in modFiles : GetFile(overlays, m).text = NoFile,
   file |-> [nil |-> FALSE, Go |-> "",
             Replace |-> {[Path |-> Dir(m), Version |-> ""] : m \in modFiles}
                           \cup {[Path |-> <<"c">>, Version |-> "v1"] :
                                   m \in {n \in modFiles :
                                            GetFile(overlays, n).text = ModReplacing}}]]

\* parseGoWork
parseGoWork(root, uri, contents) ==
  LET workFile == ParseWork(contents)
      modFiles == {absolutePath(root, dir) \o <<"go.mod">> : dir \in workFile.Use}
  IN IF workFile.err THEN ParseFailed
     ELSE IF buildWorkspaceModFile(modFiles).err THEN ParseFailed
     ELSE IF workFile.Go = "" THEN ParseFailed
     ELSE [err |-> FALSE,
           file |-> [buildWorkspaceModFile(modFiles).file EXCEPT !.Go = workFile.Go],
           modFiles |-> modFiles]

\* parseGoplsMod
parseGoplsMod(root, uri, contents) ==
  LET modFile == Parse(contents)
  IN IF modFile.err THEN ParseFailed
     ELSE IF \E replace \in modFile.Replace : replace.Version # "" THEN ParseFailed
     ELSE [err |-> FALSE,
           file |-> [nil |-> FALSE, Go |-> "",
                     Replace |-> {[Path |-> absolutePath(root, replace.Path),
                                   Version |-> ""] : replace \in modFile.Replace}],
           modFiles |-> {absolutePath(root, replace.Path) \o <<"go.mod">> :
                           replace \in modFile.Replace}]

\* The directories the walk of findModules skips: those, other than the root,
\* whose path below the root contains "/vendor/" (no directory of the model
\* is ignored by the go command or excluded by the options). skipsDir: some
\* directory on the way from root to uri is skipped.
skipsDir(root, uri) ==
  LET suffix == SubSeq(Dir(uri), Len(root) + 1, Len(Dir(uri)))
  IN \E i \in 1..(Len(suffix) - 1) : suffix[i] = "vendor"

\* findModules: the go.mod files on disk below root that the walk reaches.
findModulesOfRoot(root) ==
  {uri \in DOMAIN disk : uri = root \o <<"go.mod">> /\ disk[uri] # NoFile}
findModules(root) ==
  {uri \in DOMAIN disk : /\ isGoMod(uri) /\ InDir(root, uri) /\ disk[uri] # NoFile
                          /\ ~skipsDir(root, uri)}

\* getLegacyModules: at most the go.mod of the root.
getLegacyModules(root) ==
  IF GetFile(overlays, root \o <<"go.mod">>).text # NoFile
    THEN {root \o <<"go.mod">>} ELSE {}

\* workspace.loadExplicitWorkspaceFile: the go.work, then the gopls.mod. A
\* file that cannot be read is passed over; the first that is read decides,
\* whether it parses or not. err: noHardcodedWorkspace.
RECURSIVE loadExplicitWorkspaceFileFrom(_, _)
loadExplicitWorkspaceFileFrom(ws, srcs) ==
  IF srcs = <<>> THEN [ws |-> ws, err |-> TRUE]
  ELSE
    LET src      == Head(srcs)
        uri      == uriForSource(ws.root, ws.explicitGowork, src)
        contents == GetFile(overlays, uri).text
    IN IF contents = NoFile THEN loadExplicitWorkspaceFileFrom(ws, Tail(srcs))
       ELSE
         LET parsed == IF src = goWorkWorkspace
                         THEN parseGoWork(ws.root, uri, contents)
                         ELSE parseGoplsMod(ws.root, uri, contents)
         IN [ws |-> [ws EXCEPT
                       !.workFile = IF src = goWorkWorkspace THEN uri ELSE @,
                       !.built = IF parsed.err THEN TRUE ELSE @,
                       !.buildErr = IF parsed.err THEN TRUE ELSE @,
                       !.mod = parsed.file,
                       !.activeModFiles = parsed.modFiles,
                       !.moduleSource = src],
             err |-> FALSE]
loadExplicitWorkspaceFile(ws) ==
  loadExplicitWorkspaceFileFrom(ws, <<goWorkWorkspace, goplsModWorkspace>>)

\* newWorkspace
newWorkspace(root, explicitGowork, go111moduleOff, useWsModule) ==
  LET ws == [root |-> root, explicitGowork |-> explicitGowork,
             moduleSource |-> legacyWorkspace, activeModFiles |-> {},
             knownModFiles |-> {}, workFile |-> NoURI, mod |-> NilModFile,
             built |-> FALSE, buildErr |-> FALSE]
      loaded == loadExplicitWorkspaceFile(ws)
      known  == [ws EXCEPT !.knownModFiles = findModules(root)]
  IN IF ~loaded.err THEN loaded.ws
     ELSE IF go111moduleOff THEN [known EXCEPT !.moduleSource = legacyWorkspace]
     ELSE IF useWsModule
       THEN [known EXCEPT !.activeModFiles = known.knownModFiles,
                          !.moduleSource = fileSystemWorkspace]
     ELSE [known EXCEPT !.moduleSource = legacyWorkspace,
                        !.activeModFiles = getLegacyModules(root)]

\* newWorkspace is called for the root /ws, as createView calls it.
NewWorkspace(explicitGowork, go111moduleOff, useWsModule) ==
  /\ last' = [op |-> "newWorkspace", explicitGowork |-> explicitGowork,
              go111moduleOff |-> go111moduleOff, useWsModule |-> useWsModule,
              ws |-> newWorkspace(DirWs, explicitGowork, go111moduleOff, useWsModule)]
  /\ UNCHANGED <<sessionVars, held, disk, diskWrites, editor, concVars, wsVars, contexts>>

\* The behaviours of SpecWorkspace: the manifests and go.mod files are on
\* disk or not, the manifests parse or not, and newWorkspace is called with
\* GOWORK set or not and with either setting of the two options.
InitWorkspace ==
  /\ views = <<>>
  /\ viewMap = EmptyViewMap
  /\ overlays = [u \in WorkspaceURIs |-> NoOverlay]
  /\ view = <<>>
  /\ snapshots = <<>>
  /\ globalSnapshotID = 0
  /\ bg = {}
  /\ held = <<>>
  /\ \E w \in {NoFile, Unparsable, WorkWs},
        e \in {NoFile, Unparsable, WorkXSub, WorkNoGo},
        g \in {NoFile, Unparsable, GoplsSub, GoplsVers},
        m \in [{FileMod, SubMod, XMod} -> {"X", NoFile}] :
       disk = [u \in WorkspaceURIs |->
                 CASE u = RootWork     -> w
                   [] u = ExplicitWork -> e
                   [] u = RootGopls    -> g
                   [] OTHER            -> m[u]]
  /\ diskWrites = 0
  /\ crashed = FALSE
  /\ editor = [u \in WorkspaceURIs |-> NotOpened]
  /\ last = [op |-> "init"]
  /\ NoCalls
  /\ NoWorkspaces
  /\ contexts = <<>>

NextWorkspace ==
  \E explicitGowork \in {NoURI, ExplicitWork}, off \in BOOLEAN, useWs \in BOOLEAN :
    NewWorkspace(explicitGowork, off, useWs)

SpecWorkspace == InitWorkspace /\ [][NextWorkspace]_vars

\* The manifest newWorkspace reads for src, as the last call had GOWORK.
ManifestOf(src) == uriForSource(DirWs, last.explicitGowork, src)

\* The manifest for src is on disk.
Present(src) == disk[ManifestOf(src)] # NoFile

\* What the manifest for src makes of its text.
ParsedFrom(src) ==
  IF src = goWorkWorkspace
    THEN parseGoWork(DirWs, ManifestOf(src), disk[ManifestOf(src)])
    ELSE parseGoplsMod(DirWs, ManifestOf(src), disk[ManifestOf(src)])

\* The manifest for src is on disk and parses.
Parses(src) == Present(src) /\ ~ParsedFrom(src).err

\* A manifest of the root, go.work or gopls.mod, is on disk and parses.
RootManifestParses ==
  \/ /\ disk[RootWork] # NoFile
     /\ ~parseGoWork(DirWs, RootWork, disk[RootWork]).err
  \/ Parses(goplsModWorkspace)

\* C19: newWorkspace, called with GOWORK naming a manifest that parses while a
\* manifest of the root parses too, makes the go.work source of the modules,
\* GOWORK's file the work file and the modules GOWORK's file uses the active
\* ones; and where go.work and gopls.mod are both on disk, go.work is the
\* source of the modules and decides the active ones.
C19_ExplicitManifestFirst ==
  last.op = "newWorkspace" =>
    /\ (last.explicitGowork = ExplicitWork /\ Parses(goWorkWorkspace)
          /\ RootManifestParses) =>
         /\ last.ws.moduleSource = goWorkWorkspace
         /\ last.ws.workFile = ExplicitWork
         /\ last.ws.activeModFiles =
              {absolutePath(DirWs, dir) \o <<"go.mod">> :
                 dir \in ParseWork(disk[ExplicitWork]).Use}
    /\ (Present(goWorkWorkspace) /\ Present(goplsModWorkspace)) =>
         /\ last.ws.moduleSource = goWorkWorkspace
         /\ last.ws.activeModFiles = ParsedFrom(goWorkWorkspace).modFiles

\* GOWORK names a go.work that uses /x and ./sub, the root has a go.work that
\* uses /ws and a gopls.mod that parses, and the active modules are those of
\* /x and /ws/sub.
C19_Witness ==
  /\ last.op = "newWorkspace"
  /\ last.explicitGowork = ExplicitWork
  /\ disk[ExplicitWork] = WorkXSub
  /\ disk[RootWork] = WorkWs
  /\ disk[RootGopls] = GoplsSub
  /\ last.ws.activeModFiles = {XMod, SubMod}
  /\ ~last.ws.buildErr

\* The go.mod files on disk in /ws and below.
ModFilesBelowRoot == {m \in {FileMod, SubMod} : disk[m] # NoFile}

\* The workspace of the last call is the one of the scan: its known modules
\* are the go.mod files below the root, and its source is the file system
\* where modules are on and the workspace module is wanted, legacy otherwise.
Scanned ==
  /\ last.ws.knownModFiles = ModFilesBelowRoot
  /\ last.ws.moduleSource =
       IF ~last.go111moduleOff /\ last.useWsModule
         THEN fileSystemWorkspace ELSE legacyWorkspace

\* C20 as stated: where neither the go.work nor the gopls.mod parses,
\* newWorkspace returns the workspace of the scan.
C20_ScanUnlessParsed ==
  (last.op = "newWorkspace" /\ ~Parses(goWorkWorkspace) /\ ~Parses(goplsModWorkspace))
    => Scanned

\* The manifest for src is the first newWorkspace can read.
FirstRead(src) ==
  /\ Present(src)
  /\ src = goplsModWorkspace => ~Present(goWorkWorkspace)

\* C20, amended: where neither the go.work nor the gopls.mod can be read,
\* newWorkspace returns the workspace of the scan, whose active modules are
\* none with modules off, the known ones where the workspace module is
\* wanted, and otherwise the go.mod of the root if there is one; where the
\* first manifest that can be read does not parse, there is no scan: that
\* manifest is the source of the modules, no module is active or known, and
\* the workspace is built with an error.
C20_ScanUnlessRead ==
  last.op = "newWorkspace" =>
    /\ (~Present(goWorkWorkspace) /\ ~Present(goplsModWorkspace)) =>
         /\ Scanned
         /\ ~last.ws.buildErr
         /\ last.ws.activeModFiles =
              IF last.go111moduleOff THEN {}
              ELSE IF last.useWsModule THEN ModFilesBelowRoot
              ELSE {m \in {FileMod} : disk[m] # NoFile}
    /\ \A src \in {goWorkWorkspace, goplsModWorkspace} :
         (FirstRead(src) /\ ParsedFrom(src).err) =>
           /\ last.ws.moduleSource = src
           /\ last.ws.activeModFiles = {}
           /\ last.ws.knownModFiles = {}
           /\ last.ws.built /\ last.ws.buildErr

\* No manifest is on disk, the workspace module is wanted, and the scan
\* found the go.mod of the root and the one below it.
C20_Witness ==
  /\ last.op = "newWorkspace"
  /\ ~Present(goWorkWorkspace) /\ ~Present(goplsModWorkspace)
  /\ last.ws.moduleSource = fileSystemWorkspace
  /\ last.ws.knownModFiles = {FileMod, SubMod}
  /\ last.ws.activeModFiles = {FileMod, SubMod}

\* ------------------------------------------------------------------------
\* Workspaces as objects: Clone and build
\* ------------------------------------------------------------------------

\* A nil map, and what a map holds.
NilMap == 0
Keys(ms, ref) == IF ref = NilMap THEN {} ELSE ms[ref]

\* make(map[span.URI]struct{}) filled with keys: the heap with one more map.
makeMap(ms, keys) == Append(ms, keys)

\* The workspace object for the value newWorkspace returns. After a scan
\* with the workspace module wanted, the active modules and the known ones
\* are one map; maps that were never made are nil.
newWorkspaceObject(ms, ws, go111moduleOff) ==
  LET scanned   == ws.moduleSource \notin {goWorkWorkspace, goplsModWorkspace}
      oneMap    == scanned /\ ws.moduleSource = fileSystemWorkspace
      nilActive == \/ ~scanned /\ ws.buildErr
                   \/ scanned /\ go111moduleOff
      ms1       == IF scanned THEN makeMap(ms, ws.knownModFiles) ELSE ms
      known     == IF scanned THEN Len(ms1) ELSE NilMap
      ms2       == IF oneMap \/ nilActive THEN ms1 ELSE makeMap(ms1, ws.activeModFiles)
      active    == IF oneMap THEN known ELSE IF nilActive THEN NilMap ELSE Len(ms2)
  IN [maps |-> ms2,
      ws   |-> [ws EXCEPT !.knownModFiles = known, !.activeModFiles = active]
                 @@ [sum |-> {}, wsDirs |-> NilMap, buildMu |-> NoThread, builds |-> 0]]

\* fileChange of Clone's changes, with the URI it is filed under;
\* saved is change.fileHandle.Saved().
wsChange(uri, content, exists, saved, isUnchanged) ==
  [uri |-> uri, content |-> content, exists |-> exists, saved |-> saved,
   isUnchanged |-> isUnchanged]

\* Whether handleWorkspaceFileChanges leaves the workspace as it is because
\* the changed manifest did not parse.
parseRejectedNever(parsed) == FALSE
parseRejected(parsed) == parsed.err

\* handleWorkspaceFileChanges on the workspace object ws under construction:
\* the go.work or gopls.mod the workspace was made from is read again if it
\* has changed and parses; it must not have been deleted.
handleWorkspaceFileChanges(ms, ws, changes) ==
  LET unchanged == [maps |-> ms, ws |-> ws, changed |-> FALSE, reload |-> FALSE,
                    panic |-> FALSE]
      uri       == uriForSource(ws.root, ws.explicitGowork, ws.moduleSource)
      found     == {c \in changes : c.uri = uri}
  IN IF ws.moduleSource # goWorkWorkspace /\ ws.moduleSource # goplsModWorkspace
       THEN unchanged
     ELSE IF found = {} THEN unchanged
     ELSE
       LET change == CHOOSE c \in found : TRUE
           parsed == IF ws.moduleSource = goWorkWorkspace
                       THEN parseGoWork(ws.root, uri, change.content)
                       ELSE parseGoplsMod(ws.root, uri, change.content)
           ms1    == makeMap(ms, parsed.modFiles)
           ms2    == makeMap(ms1, parsed.modFiles)
       IN IF change.isUnchanged THEN unchanged
          ELSE IF ~change.exists THEN [unchanged EXCEPT !.panic = TRUE]
          ELSE IF parseRejected(parsed) THEN unchanged
          ELSE [maps |-> ms2,
                ws |-> [ws EXCEPT !.mod = parsed.file,
                                  !.knownModFiles = Len(ms1),
                                  !.activeModFiles = Len(ms2)],
                changed |-> TRUE, reload |-> change.saved, panic |-> FALSE]

\* The copy Clone makes of a map of its receiver.
cloneMapShared(ms, ref) ==
  IF ref = NilMap THEN [maps |-> makeMap(ms, {}), ref |-> Len(ms) + 1]
  ELSE [maps |-> ms, ref |-> ref]
cloneMap(ms, ref) == [maps |-> makeMap(ms, Keys(ms, ref)), ref |-> Len(ms) + 1]

\* The changes of go.mod files that Clone's second loop takes up.
goModChanges(ws, changes) ==
  {c \in changes : ~c.isUnchanged /\ isGoMod(c.uri) /\ InDir(ws.root, c.uri)}

\* The test of Clone's third loop: the change is of the go.sum of a module
\* that is active in the result.
activeSumChangeAlways(ms, ws, c) == isGoSum(c.uri)
activeSumChange(ms, ws, c) ==
  isGoSum(c.uri) /\ (Dir(c.uri) \o <<"go.mod">>) \in Keys(ms, ws.activeModFiles)

\* Whether Clone takes the module of a changed go.mod for an active one.
isActiveAlways(ws, c) == TRUE
isActive(ws, c) ==
  \/ ws.moduleSource # legacyWorkspace
  \/ ws.root \o <<"go.mod">> = c.uri
  \/ SameExistingFile(ws.root \o <<"go.mod">>, c.uri)

\* The workspace Clone starts from: its receiver's fields, with maps of its
\* own and not built.
cloneResult(ms, recv) ==
  LET known  == cloneMap(ms, recv.knownModFiles)
      active == cloneMap(known.maps, recv.activeModFiles)
  IN [maps |-> active.maps,
      ws   |-> [recv EXCEPT !.knownModFiles = known.ref,
                            !.activeModFiles = active.ref,
                            !.built = FALSE, !.buildErr = FALSE,
                            !.buildMu = NoThread, !.builds = 0]]

\* The second loop of Clone, over the changed go.mod files: the maps after it.
cloneGoMods(ms, ws, mods) ==
  IF ws.moduleSource \in {goplsModWorkspace, goWorkWorkspace} THEN ms
  ELSE [ms EXCEPT
          ![ws.knownModFiles] =
             (@ \cup {c.uri : c \in {d \in mods : d.exists}})
               \ {c.uri : c \in {d \in mods : ~d.exists}},
          ![ws.activeModFiles] =
             (@ \cup {c.uri : c \in {d \in mods : d.exists /\ isActive(ws, d)}})
               \ {c.uri : c \in {d \in mods : ~d.exists}}]

\* needReinit as Clone's loops leave it: what handleWorkspaceFileChanges
\* returned for it, or a go.mod change of a module taken for active, or a
\* go.sum change of an active module, with a file handle that is saved.
needReinitAlways(h, mods, sums) == h.changed \/ mods # {} \/ sums # {}
needReinit(h, mods, sums) ==
  \/ h.reload
  \/ \E c \in mods : isActive(h.ws, c) /\ c.saved
  \/ \E c \in sums : c.saved

\* What Clone returns once its loops have run: h is what
\* handleWorkspaceFileChanges returned, mods and sums the go.mod and go.sum
\* changes taken up, ms3 the maps after the loops.
cloneReturn(wss, ms, w, h, mods, sums, ms3) ==
  IF h.panic
    THEN [workspaces |-> wss, maps |-> ms, result |-> 0, needReinit |-> FALSE,
          panic |-> TRUE]
  ELSE IF ~(h.changed \/ mods # {} \/ sums # {})
    THEN [workspaces |-> wss, maps |-> ms, result |-> w, needReinit |-> FALSE,
          panic |-> FALSE]
  ELSE [workspaces |-> Append(wss, h.ws), maps |-> ms3, result |-> Len(wss) + 1,
        needReinit |-> needReinit(h, mods, sums),
        panic |-> FALSE]

cloneLoops(wss, ms, w, changes, h, ms3) ==
  cloneReturn(wss, ms, w, h, goModChanges(h.ws, changes),
              {c \in changes : activeSumChange(ms3, h.ws, c)}, ms3)

cloneHandled(wss, ms, w, changes, h) ==
  cloneLoops(wss, ms, w, changes, h,
             cloneGoMods(h.maps, h.ws, goModChanges(h.ws, changes)))

cloneStarted(wss, ms, w, changes, r) ==
  cloneHandled(wss, ms, w, changes, handleWorkspaceFileChanges(r.maps, r.ws, changes))

\* workspace.Clone of the workspace object w: the heaps after the call, the
\* workspace returned (w itself when nothing changed) and needReinit.
Clone(wss, ms, w, changes) ==
  cloneStarted(wss, ms, w, changes, cloneResult(ms, wss[w]))

\* buildWorkspaceSumFile: the go.sum files of the modules, where there are any.
buildWorkspaceSumFile(modFiles) ==
  {m \in modFiles : (Dir(m) \o <<"go.sum">>) \in DOMAIN disk
                      /\ GetFile(overlays, Dir(m) \o <<"go.sum">>).text # NoFile}

\* The directories build derives from the descriptor: the root and every
\* replacement that is a path, not a version.
replaceDirs(root, mod) ==
  {root} \cup {r.Path : r \in {q \in mod.Replace : q.Version = ""}}

\* The descriptor build keeps when buildWorkspaceModFile has returned r, and
\* whether it records the error.
builtModDiscarding(recv, r) == IF r.err THEN NilModFile ELSE r.file
builtMod(recv, r) == IF r.err THEN recv.mod ELSE r.file
builtErr(recv, r) == r.err /\ recv.mod = NilModFile

\* Whether build returns at once.
alreadyBuiltNever(recv) == FALSE
alreadyBuilt(recv) == recv.built

\* The body of workspace.build between Lock and Unlock, on workspace object w.
build(wss, ms, w) ==
  LET recv == wss[w]
      fs   == recv.moduleSource = fileSystemWorkspace
      r    == buildWorkspaceModFile(Keys(ms, recv.activeModFiles))
      mod  == IF fs THEN builtMod(recv, r) ELSE recv.mod
      err  == IF fs THEN builtErr(recv, r) ELSE recv.buildErr
      ms1  == IF mod # NilModFile THEN makeMap(ms, replaceDirs(recv.root, mod)) ELSE ms
      dirs == IF mod # NilModFile THEN Len(ms1) ELSE recv.wsDirs
      ms2  == IF Keys(ms1, dirs) = {} THEN makeMap(ms1, {recv.root}) ELSE ms1
      dirs2 == IF Keys(ms1, dirs) = {} THEN Len(ms2) ELSE dirs
  IN IF alreadyBuilt(recv) THEN [workspaces |-> wss, maps |-> ms]
     ELSE [workspaces |->
             [wss EXCEPT ![w] =
                [recv EXCEPT !.mod = mod, !.buildErr = err, !.wsDirs = dirs2,
                             !.sum = buildWorkspaceSumFile(Keys(ms, recv.activeModFiles)),
                             !.built = TRUE, !.builds = @ + 1]],
           maps |-> ms2]

\* workspace.criticalError on workspace object w: the heaps after the call
\* and whether an error is returned.
criticalError(wss, ms, w) ==
  LET b == build(wss, ms, w)
  IN IF wss[w].moduleSource = goWorkWorkspace
       THEN [workspaces |-> b.workspaces, maps |-> b.maps,
             err |-> b.workspaces[w].buildErr]
     ELSE [workspaces |-> wss, maps |-> ms, err |-> FALSE]

\* workspace.dirs on workspace object w: the heaps after the call and the
\* directories returned.
dirs(wss, ms, w) ==
  LET b == build(wss, ms, w)
  IN [workspaces |-> b.workspaces, maps |-> b.maps,
      dirs |-> Keys(b.maps, b.workspaces[w].wsDirs)]

\* At most MaxWorkspaces workspace objects are made.
MaxWorkspaces == 2

\* The files of the workspace behaviours: those of newWorkspace and the
\* go.sum of the root.
RootSum == DirWs \o <<"go.sum">>
CloneURIs == WorkspaceURIs \cup {RootSum}

\* newWorkspace is called and its workspace kept.
NewWorkspaceObject(explicitGowork, go111moduleOff, useWsModule) ==
  /\ ~crashed
  /\ Len(workspaces) < MaxWorkspaces
  /\ LET o == newWorkspaceObject(maps,
                newWorkspace(DirWs, explicitGowork, go111moduleOff, useWsModule),
                go111moduleOff)
     IN /\ workspaces' = Append(workspaces, o.ws)
        /\ maps' = o.maps
  /\ last' = [op |-> "newWorkspace", result |-> Len(workspaces) + 1]
  /\ UNCHANGED <<sessionVars, held, disk, diskWrites, editor, concVars, contexts>>

\* workspace.Clone is called on workspace w; a deleted manifest panics.
CloneWorkspace(w, changes) ==
  /\ ~crashed
  /\ w \in 1..Len(workspaces)
  /\ workspaces[w].buildMu = NoThread
  /\ LET r == Clone(workspaces, maps, w, changes)
     IN /\ Len(r.workspaces) <= MaxWorkspaces
        /\ workspaces' = r.workspaces
        /\ maps' = r.maps
        /\ crashed' = r.panic
        /\ last' = [op |-> "Clone", w |-> w, changes |-> changes,
                    result |-> r.result, needReinit |-> r.needReinit]
  /\ UNCHANGED <<views, viewMap, overlays, view, snapshots, globalSnapshotID, bg,
                 held, disk, diskWrites, editor, concVars, contexts>>

\* modFile, sumFile or dirs is called on workspace w with no other caller
\* about: the workspace is built if it was not. modErr: the body of build ran
\* and buildWorkspaceModFile returned an error.
Build(w) ==
  /\ ~crashed
  /\ w \in 1..Len(workspaces)
  /\ workspaces[w].buildMu = NoThread
  /\ LET b == build(workspaces, maps, w)
     IN /\ workspaces' = b.workspaces
        /\ maps' = b.maps
  /\ last' = [op |-> "build", w |-> w,
              modErr |-> /\ ~workspaces[w].built
                         /\ workspaces[w].moduleSource = fileSystemWorkspace
                         /\ buildWorkspaceModFile(Keys(maps, workspaces[w].activeModFiles)).err]
  /\ UNCHANGED <<sessionVars, held, disk, diskWrites, editor, concVars, contexts>>

\* criticalError is called on workspace w with no other caller about.
CriticalError(w) ==
  /\ ~crashed
  /\ w \in 1..Len(workspaces)
  /\ workspaces[w].buildMu = NoThread
  /\ LET r == criticalError(workspaces, maps, w)
     IN /\ workspaces' = r.workspaces
        /\ maps' = r.maps
        /\ last' = [op |-> "criticalError", w |-> w, err |-> r.err]
  /\ UNCHANGED <<sessionVars, held, disk, diskWrites, editor, concVars, contexts>>

\* A file changes on disk.
WorkspaceDiskWrite(uri, text) ==
  /\ DiskWrite(uri, text)

\* The changes Clone is given: of the manifests, with text that parses or
\* not, or deleted; of go.mod files below the root and elsewhere; of the
\* go.sum of the root; of another file; saved or not, content-neutral or not;
\* alone, or a manifest that does not parse together with a go.mod, or the
\* go.mod of the root, deleted or made, together with its go.sum.
CloneChangesOf(uri) ==
  CASE uri = RootWork ->
         {wsChange(uri, WorkXSub, TRUE, sv, FALSE) : sv \in BOOLEAN}
           \cup {wsChange(uri, Unparsable, TRUE, TRUE, FALSE),
                 wsChange(uri, WorkWs, TRUE, TRUE, TRUE),
                 wsChange(uri, NoFile, FALSE, TRUE, FALSE)}
    [] uri = RootGopls ->
         {wsChange(uri, t, TRUE, TRUE, FALSE) : t \in {Unparsable, GoplsSub}}
    [] uri = FileMod ->
         {wsChange(uri, "X", TRUE, sv, FALSE) : sv \in BOOLEAN}
           \cup {wsChange(uri, "X", TRUE, TRUE, TRUE),
                 wsChange(uri, NoFile, FALSE, TRUE, FALSE)}
    [] uri = SubMod ->
         {wsChange(uri, "X", TRUE, TRUE, FALSE),
          wsChange(uri, NoFile, FALSE, TRUE, FALSE)}
    [] uri = RootSum ->
         {wsChange(uri, "X", TRUE, sv, TRUE) : sv \in BOOLEAN}
           \cup {wsChange(uri, "X", TRUE, TRUE, FALSE)}
    [] OTHER -> {wsChange(uri, "X", TRUE, TRUE, FALSE)}
CloneChanges ==
  {{c} : c \in UNION {CloneChangesOf(u) :
                        u \in {RootWork, RootGopls, FileMod, SubMod, XMod, RootSum, FileA}}}
    \cup {{wsChange(m, Unparsable, TRUE, TRUE, FALSE),
           wsChange(SubMod, "X", TRUE, TRUE, FALSE)} : m \in {RootWork, RootGopls}}
    \cup {{wsChange(FileMod, NoFile, FALSE, TRUE, FALSE),
            wsChange(RootSum, "X", TRUE, TRUE, FALSE)},
           {wsChange(FileMod, "X", TRUE, FALSE, FALSE),
            wsChange(RootSum, "X", TRUE, TRUE, FALSE)}}

InitClone ==
  /\ views = <<>>
  /\ viewMap = EmptyViewMap
  /\ overlays = [u \in CloneURIs |-> NoOverlay]
  /\ view = <<>>
  /\ snapshots = <<>>
  /\ globalSnapshotID = 0
  /\ bg = {}
  /\ held = <<>>
  /\ \E w \in {NoFile, Unparsable, WorkWs}, g \in {NoFile, GoplsSub},
        m \in {"X", NoFile} :
       /\ w = NoFile \/ g = NoFile
       /\ disk = [u \in CloneURIs |->
                    CASE u = RootWork  -> w
                      [] u = RootGopls -> g
                      [] u = FileMod   -> m
                      [] u = SubMod    -> ModReplacing
                      [] u = XMod      -> "X"
                      [] u = RootSum   -> "X"
                      [] OTHER         -> NoFile]
  /\ diskWrites = 0
  /\ crashed = FALSE
  /\ editor = [u \in CloneURIs |-> NotOpened]
  /\ last = [op |-> "init"]
  /\ NoCalls
  /\ NoWorkspaces
  /\ contexts = <<>>

\* One workspace is created; the others are clones of it.
NextClone ==
  \/ \E off \in BOOLEAN, useWs \in BOOLEAN :
       workspaces = <<>> /\ NewWorkspaceObject(NoURI, off, useWs)
  \/ \E w \in 1..MaxWorkspaces, changes \in CloneChanges : CloneWorkspace(w, changes)
  \/ \E w \in 1..MaxWorkspaces : Build(w)
  \/ \E w \in 1..MaxWorkspaces : CriticalError(w)
  \/ WorkspaceDiskWrite(SubMod, NoFile)

SpecClone == InitClone /\ [][NextClone]_vars

\* ------------------------------------------------------------------------
\* Clone and the manifest of the workspace

ActiveOf(wss, ms, w) == Keys(ms, wss[w].activeModFiles)
KnownOf(wss, ms, w)  == Keys(ms, wss[w].knownModFiles)

\* Change c gives text that does not parse for the go.work or gopls.mod
\* workspace ws was made from, a file that exists.
InvalidManifest(ws, c) ==
  /\ ws.moduleSource \in {goWorkWorkspace, goplsModWorkspace}
  /\ c.uri = IF ws.moduleSource = goWorkWorkspace THEN RootWork ELSE RootGopls
  /\ c.exists /\ ~c.isUnchanged
  /\ c.content = Unparsable

\* The last call was a Clone that was given such a change.
ClonedWithInvalidManifest ==
  /\ last.op = "Clone"
  /\ last.result # 0
  /\ \E c \in last.changes : InvalidManifest(workspaces[last.w], c)

\* C21: Clone with a change that gives its receiver's go.work or gopls.mod
\* content that does not parse returns a workspace with the active modules,
\* the known modules and the descriptor of its receiver.
C21_InvalidManifestKeeps ==
  ClonedWithInvalidManifest =>
    /\ ActiveOf(workspaces, maps, last.result) = ActiveOf(workspaces, maps, last.w)
    /\ KnownOf(workspaces, maps, last.result) = KnownOf(workspaces, maps, last.w)
    /\ workspaces[last.result].mod = workspaces[last.w].mod

\* Such a Clone has returned a workspace of its own, made from a manifest
\* that listed a module.
C21_Witness ==
  /\ ClonedWithInvalidManifest
  /\ last.result # last.w
  /\ ActiveOf(workspaces, maps, last.w) # {}

\* C22: after a Clone that was given content that does not parse for the
\* go.work or gopls.mod of its receiver, criticalError of the workspace
\* returned returns an error.
C22_InvalidManifestCritical ==
  ClonedWithInvalidManifest =>
    criticalError(workspaces, maps, last.result).err

\* What Clone must leave alone of workspace object w.
Fields(wss, ms, w) ==
  [moduleSource |-> wss[w].moduleSource,
   active |-> ActiveOf(wss, ms, w),
   known  |-> KnownOf(wss, ms, w),
   mod    |-> wss[w].mod,
   sum    |-> wss[w].sum,
   dirs   |-> Keys(ms, wss[w].wsDirs)]

\* Change c names a file workspace ws depends on: its go.work or gopls.mod,
\* a go.mod below its root, or the go.sum of one of its active modules.
Relevant(ws, c) ==
  \/ c.uri \in {RootWork, RootGopls}
  \/ Base(c.uri) = "go.mod" /\ IsPrefix(ws.root, c.uri)
  \/ Base(c.uri) \in {"go.sum", "go.work.sum"}

\* C23: Clone leaves the module source, the active and the known modules,
\* the descriptor, the sum and the directories of every workspace there was
\* as they were, and given no change of a file the workspace depends on it
\* returns its receiver with needReinit = false.
C23_CloneLeavesReceiver ==
  [][last'.op = "Clone" =>
       /\ \A w \in 1..Len(workspaces) :
            /\ w \in 1..Len(workspaces')
            /\ Fields(workspaces', maps', w) = Fields(workspaces, maps, w)
       /\ (\A c \in last'.changes : ~Relevant(workspaces[last'.w], c)) =>
            /\ last'.result = last'.w
            /\ ~last'.needReinit]_vars

\* A Clone of a built workspace of the modules found by the scan has
\* returned a workspace whose active modules are not those of its receiver.
C23_Witness ==
  /\ last.op = "Clone"
  /\ last.result \notin {0, last.w}
  /\ ActiveOf(workspaces, maps, last.result) # ActiveOf(workspaces, maps, last.w)
  /\ workspaces[last.w].moduleSource = fileSystemWorkspace
  /\ workspaces[last.w].built

\* C24: given only changes that are flagged isUnchanged, Clone returns its
\* receiver with needReinit = false, whichever files they name.
C24_UnchangedReturnsReceiver ==
  (last.op = "Clone" /\ \A c \in last.changes : c.isUnchanged) =>
    /\ last.result = last.w
    /\ ~last.needReinit

\* ------------------------------------------------------------------------
\* Concurrent callers of modFile, sumFile, dirs and criticalError

WsMethods == {"modFile", "sumFile", "dirs", "criticalError"}

\* criticalError calls build for a go.work workspace only.
callsBuild(ws, method) ==
  method # "criticalError" \/ ws.moduleSource = goWorkWorkspace

\* What the method returns from workspace object ws once build has returned.
wsResult(ms, ws, method) ==
  CASE method = "modFile"       -> [mod |-> ws.mod, err |-> ws.buildErr]
    [] method = "sumFile"       -> [sum |-> ws.sum, err |-> ws.buildErr]
    [] method = "dirs"          -> [dirs |-> Keys(ms, ws.wsDirs)]
    [] method = "criticalError" ->
         [err |-> ws.moduleSource = goWorkWorkspace /\ ws.buildErr]

WsFrame == UNCHANGED <<sessionVars, held, disk, diskWrites, editor, last,
                       viewMu, overlayMu, holding, contexts>>

\* At most MaxBuildCalls calls of the methods are made.
MaxBuildCalls == 3
MaxTreeClones == 2

\* Thread t calls method of workspace w.
WsCall(t, w, method) ==
  /\ ~crashed
  /\ pc[t] = Idle
  /\ calls < MaxBuildCalls
  /\ w \in 1..Len(workspaces)
  /\ calls' = calls + 1
  /\ pc' = [pc EXCEPT ![t] =
              [op |-> method, w |-> w,
               at |-> IF callsBuild(workspaces[w], method) THEN "Lock" ELSE "return"]]
  /\ obs' = [obs EXCEPT ![t] = NoObs]
  /\ WsFrame
  /\ UNCHANGED <<wsVars, contexts>>

\* build: w.buildMu.Lock()
WsLock(t) ==
  /\ ~crashed
  /\ pc[t] # Idle /\ pc[t].at = "Lock"
  /\ workspaces[pc[t].w].buildMu = NoThread
  /\ workspaces' = [workspaces EXCEPT ![pc[t].w].buildMu = t]
  /\ pc' = [pc EXCEPT ![t].at = "build"]
  /\ WsFrame
  /\ UNCHANGED <<maps, calls, obs>>

\* build, from the test of w.built to w.built = true
WsBuild(t) ==
  /\ ~crashed
  /\ pc[t] # Idle /\ pc[t].at = "build"
  /\ LET b == build(workspaces, maps, pc[t].w)
     IN /\ workspaces' = b.workspaces
        /\ maps' = b.maps
  /\ pc' = [pc EXCEPT ![t].at = "Unlock"]
  /\ WsFrame
  /\ UNCHANGED <<calls, obs>>

\* build: the deferred w.buildMu.Unlock()
WsUnlock(t) ==
  /\ ~crashed
  /\ pc[t] # Idle /\ pc[t].at = "Unlock"
  /\ workspaces' = [workspaces EXCEPT ![pc[t].w].buildMu = NoThread]
  /\ pc' = [pc EXCEPT ![t].at = "return"]
  /\ WsFrame
  /\ UNCHANGED <<maps, calls, obs>>

\* The method reads the fields it returns.
WsReturn(t) ==
  /\ ~crashed
  /\ pc[t] # Idle /\ pc[t].at = "return"
  /\ obs' = [obs EXCEPT ![t] =
               [op |-> pc[t].op, w |-> pc[t].w,
                res |-> wsResult(maps, workspaces[pc[t].w], pc[t].op)]]
  /\ pc' = [pc EXCEPT ![t] = Idle]
  /\ WsFrame
  /\ UNCHANGED <<wsVars, calls>>

\* The root has its go.mod and the one below it, with a go.work or without.
InitBuild ==
  /\ InitClone
  /\ disk[RootWork] \in {NoFile, WorkWs}
  /\ disk[RootGopls] = NoFile
  /\ disk[FileMod] # NoFile

NextBuild ==
  \/ workspaces = <<>> /\ NewWorkspaceObject(NoURI, FALSE, TRUE)
  \/ \E t \in Threads, w \in 1..MaxWorkspaces, m \in WsMethods : WsCall(t, w, m)
  \/ \E t \in Threads : WsLock(t)
  \/ \E t \in Threads : WsBuild(t)
  \/ \E t \in Threads : WsUnlock(t)
  \/ \E t \in Threads : WsReturn(t)
  \/ \E w \in 1..MaxWorkspaces :
       CloneWorkspace(w, {wsChange(FileMod, NoFile, FALSE, TRUE, FALSE)})
  \/ WorkspaceDiskWrite(SubMod, NoFile)

SpecBuild == InitBuild /\ [][NextBuild]_vars

\* Thread t is in build of workspace w, between Lock and Unlock.
InBuild(t, w) == pc[t] # Idle /\ pc[t].w = w /\ pc[t].at \in {"build", "Unlock"}

\* What build computes of workspace object w.
Built(wss, ms, w) ==
  [mod |-> wss[w].mod, sum |-> wss[w].sum, dirs |-> Keys(ms, wss[w].wsDirs),
   buildErr |-> wss[w].buildErr]

\* The body of build has run at most once on every workspace, by a caller
\* that held buildMu, and a caller that has returned has got what was built.
BuiltOnce ==
  /\ \A w \in 1..Len(workspaces) :
       /\ workspaces[w].builds <= 1
       /\ \A t \in Threads : InBuild(t, w) => workspaces[w].buildMu = t
  /\ \A t \in Threads :
       (obs[t] # NoObs /\ callsBuild(workspaces[obs[t].w], obs[t].op)) =>
         /\ workspaces[obs[t].w].built
         /\ obs[t].res = wsResult(maps, workspaces[obs[t].w], obs[t].op)

\* Once built, a workspace stays built and keeps its descriptor, sum,
\* directories and build error.
BuiltFrozen ==
  \A w \in 1..Len(workspaces) :
    workspaces[w].built =>
      /\ workspaces'[w].built
      /\ Built(workspaces', maps', w) = Built(workspaces, maps, w)

\* C25: with any number of concurrent callers of modFile, sumFile, dirs and
\* criticalError on a workspace, the body of build runs at most once, under
\* buildMu; a caller that returns has waited for it and gets its result; and
\* once built is set the descriptor, the sum, the directories and the build
\* error do not change.
C25_BuildOnce == []BuiltOnce /\ [][BuiltFrozen]_vars

\* One caller is about to leave build with the workspace built while another
\* waits for buildMu.
C25_Witness ==
  \E w \in 1..Len(workspaces) :
    /\ workspaces[w].built
    /\ pc["t1"] # Idle /\ pc["t1"].w = w /\ pc["t1"].at = "Unlock"
    /\ pc["t2"] # Idle /\ pc["t2"].w = w /\ pc["t2"].at = "Lock"

\* ------------------------------------------------------------------------
\* build

\* Workspace object w of the modules found by the scan is built in this
\* step.
BuildsScanned(w) ==
  /\ w \in 1..Len(workspaces)
  /\ workspaces[w].moduleSource = fileSystemWorkspace
  /\ ~workspaces[w].built
  /\ workspaces'[w].built

\* The descriptor of the active modules of w cannot be built.
ModFileFails(wss, ms, w) == \E m \in ActiveOf(wss, ms, w) : GetFile(overlays, m).text = NoFile

\* C26: when build cannot build the descriptor of a workspace of the modules
\* found by the scan that has a descriptor from the workspace it was cloned
\* from, it keeps that descriptor and its directories and records no error;
\* it records an error only for a workspace with no descriptor.
C26_BuildFailureKeepsInherited ==
  [][\A w \in 1..MaxWorkspaces :
       (BuildsScanned(w) /\ ModFileFails(workspaces, maps, w)) =>
         /\ workspaces[w].mod # NilModFile =>
              /\ workspaces'[w].mod = workspaces[w].mod
              /\ Keys(maps', workspaces'[w].wsDirs) = Keys(maps, workspaces[w].wsDirs)
              /\ ~workspaces'[w].buildErr
         /\ workspaces'[w].buildErr <=> workspaces[w].mod = NilModFile]_vars

\* The last call has built a workspace whose descriptor could not be built,
\* and the workspace has a descriptor and no error.
C26_Witness ==
  /\ last.op = "build"
  /\ last.modErr
  /\ workspaces[last.w].mod # NilModFile
  /\ ~workspaces[last.w].buildErr

\* The replace targets of descriptor mod that are paths.
LocalReplaces(mod) == {r.Path : r \in {q \in mod.Replace : q.Version = ""}}

\* C27: after build the directories of the workspace contain the root: they
\* are the root and the replace targets of the descriptor that are paths, and
\* the root alone when the workspace has no descriptor.
C27_DirsContainRoot ==
  last.op = "build" =>
    LET ws == workspaces[last.w]
        wsDirs == dirs(workspaces, maps, last.w).dirs
    IN /\ ws.root \in wsDirs
       /\ ws.mod # NilModFile => wsDirs = {ws.root} \cup LocalReplaces(ws.mod)
       /\ ws.mod = NilModFile => wsDirs = {ws.root}

\* ------------------------------------------------------------------------
\* The scan and its limit

\* The go.mod search is limited to fileLimit files.
fileLimit == 1000000

\* The entries filepath.Walk hands to the function of findModules: the root,
\* the go.mod files below it, and the others directories and files there.
walked(root, others) == 1 + Cardinality(findModules(root)) + others

\* The error findModules returns, errExhausted or none: searched counts every
\* entry, and the walk ends with the entry that takes it to fileLimit.
findModulesErr(root, others) == fileLimit > 0 /\ walked(root, others) >= fileLimit

\* newWorkspace has no go.work and no gopls.mod to read, and scans.
scans(root, explicitGowork) ==
  newWorkspace(root, explicitGowork, FALSE, FALSE).moduleSource
    \notin {goWorkWorkspace, goplsModWorkspace}

\* The error newWorkspace returns for a root with that many entries.
newWorkspaceErr(root, explicitGowork, others) ==
  scans(root, explicitGowork) /\ findModulesErr(root, others)

\* return nil, err
NilWorkspace == [nil |-> TRUE]

\* The sizes of the tree below the root: small, and about fileLimit.
Others == {0, fileLimit - 3, fileLimit - 1}

\* createView, up to its call of newWorkspace, for the root /ws holding
\* others entries besides the go.mod files: it returns the error.
CreateViewWorkspace(go111moduleOff, useWsModule, others) ==
  /\ last' = [op |-> "createView", others |-> others,
              exhausted |-> findModulesErr(DirWs, others),
              scanned |-> scans(DirWs, NoURI),
              ws |-> IF newWorkspaceErr(DirWs, NoURI, others) THEN NilWorkspace
                     ELSE newWorkspace(DirWs, NoURI, go111moduleOff, useWsModule),
              err |-> newWorkspaceErr(DirWs, NoURI, others)]
  /\ UNCHANGED <<sessionVars, held, disk, diskWrites, editor, concVars, wsVars, contexts>>

NextScan ==
  \E off \in BOOLEAN, useWs \in BOOLEAN, others \in Others :
    CreateViewWorkspace(off, useWs, others)

SpecScan == InitWorkspace /\ [][NextScan]_vars

\* C28: when the scan of newWorkspace reaches the limit of files, newWorkspace
\* returns a workspace all the same, and createView does not fail.
C28_ExhaustedNotFatal ==
  (last.op = "createView" /\ last.scanned /\ last.exhausted) =>
    ~last.err /\ last.ws # NilWorkspace

\* ------------------------------------------------------------------------
\* Legacy mode

\* C30: the active modules of a legacy workspace are at most the go.mod of
\* its root, when it is made and after every Clone; a go.mod that appears
\* elsewhere below the root becomes a known module only.
C30_LegacyActiveRootOnly ==
  \A w \in 1..Len(workspaces) :
    workspaces[w].moduleSource = legacyWorkspace =>
      /\ ActiveOf(workspaces, maps, w) \subseteq {workspaces[w].root \o <<"go.mod">>}
      /\ (/\ last.op = "Clone" /\ last.result = w
          /\ \E c \in last.changes :
               c.exists /\ ~c.isUnchanged /\ c.uri = SubMod) =>
           SubMod \in KnownOf(workspaces, maps, w) \ ActiveOf(workspaces, maps, w)

\* A Clone of a legacy workspace with the go.mod of its root active has been
\* told of a go.mod below the root that its receiver did not know.
C30_Witness ==
  /\ last.op = "Clone"
  /\ last.result \notin {0, last.w}
  /\ workspaces[last.result].moduleSource = legacyWorkspace
  /\ ActiveOf(workspaces, maps, last.result) = {FileMod}
  /\ SubMod \in KnownOf(workspaces, maps, last.result) \ KnownOf(workspaces, maps, last.w)

\* ------------------------------------------------------------------------
\* Contexts

\* A context with no parent that can be cancelled: context.Background().
NoParent == 0

\* xcontext.Detach(ctx): a context with the values of ctx that is not done
\* when ctx is; what is derived from it has no parent that can be cancelled.
Detach(ctx) == NoParent

\* context.WithCancel(parent), made for the snapshot or workspace of.
WithCancel(parent, role, of) ==
  [parent |-> parent, cancelled |-> FALSE, role |-> role, of |-> of]

\* ctx.Done() is closed: the context's cancel function has been called, or
\* its parent is done. The cancel function of a snapshot's background context
\* is the snapshot's, which calls it when the snapshot is torn down.
RECURSIVE Done(_, _, _)
Done(cs, snaps, k) ==
  IF k = NoParent THEN FALSE
  ELSE \/ IF cs[k].role = "background" THEN snaps[cs[k].of].cancels > 0
          ELSE cs[k].cancelled
       \/ Done(cs, snaps, cs[k].parent)

\* createView: the parent of the snapshot's background context, given the
\* context of the caller.
createViewBaseCtxOfCaller(ctx) == ctx
createViewBaseCtx(ctx) == Detach(ctx)

\* createView: the parent of the context of the initial load.
createViewInitCtx(ctx) == Detach(ctx)

\* build: the context the descriptor is built with.
buildCtx(ctx) == Detach(ctx)

\* The contexts createView makes for snapshot i when called with context ctx.
createViewContexts(ctx, i) ==
  <<WithCancel(createViewBaseCtx(ctx), "background", i),
    WithCancel(createViewInitCtx(ctx), "init", i)>>

\* A caller makes a context it can cancel and calls NewView with it;
\* createView starts the initial load and returns, and the caller releases
\* the snapshot it is given.
NewViewWithContext(folder) ==
  /\ ~crashed
  /\ ~viewExists(State, folder)
  /\ LET c   == createView(State, folder, 0, FALSE)
         ctx == Len(contexts) + 1
     IN /\ InBounds(c.st)
        /\ SetState(Release([c.st EXCEPT !.views = Append(@, c.v),
                                         !.viewMap = EmptyViewMap], c.snapshot))
        /\ contexts' = Append(contexts, WithCancel(NoParent, "request", c.snapshot))
                         \o createViewContexts(ctx, c.snapshot)
        /\ last' = [op |-> "NewView", snapshot |-> c.snapshot, ctx |-> ctx]
  /\ UNCHANGED <<held, disk, diskWrites, editor, concVars, wsVars>>

\* A caller cancels the context it has made.
CancelRequest(k) ==
  /\ ~crashed
  /\ k \in 1..Len(contexts)
  /\ contexts[k].role = "request"
  /\ ~contexts[k].cancelled
  /\ contexts' = [contexts EXCEPT ![k].cancelled = TRUE]
  /\ UNCHANGED <<sessionVars, held, disk, diskWrites, editor, last, concVars, wsVars>>

\* A caller makes a context it can cancel and calls modFile, sumFile or dirs
\* of workspace w, which is not built, with it: build takes buildMu and
\* detaches from the context.
BuildWithContext(t, w) ==
  /\ ~crashed
  /\ w \in 1..Len(workspaces)
  /\ workspaces[w].buildMu = NoThread
  /\ ~workspaces[w].built
  /\ workspaces' = [workspaces EXCEPT ![w].buildMu = t]
  /\ contexts' = contexts \o
       <<WithCancel(NoParent, "request", w),
         WithCancel(buildCtx(Len(contexts) + 1), "build", w)>>
  /\ UNCHANGED <<sessionVars, held, disk, diskWrites, editor, last, maps, concVars>>

\* build goes on to its end and gives up buildMu.
BuildWithContextDone(t, w) ==
  /\ ~crashed
  /\ w \in 1..Len(workspaces)
  /\ workspaces[w].buildMu = t
  /\ LET b == build(workspaces, maps, w)
     IN /\ workspaces' = [b.workspaces EXCEPT ![w].buildMu = NoThread]
        /\ maps' = b.maps
  /\ UNCHANGED <<sessionVars, held, disk, diskWrites, editor, last, concVars, contexts>>

NextContexts ==
  \/ NewViewWithContext(DirWs)
  \/ \E k \in 1..(3 * MaxViews + 2 * MaxWorkspaces) : CancelRequest(k)
  \/ \E i \in 1..MaxSnapshots : InitializeDone(i)
  \/ \E v \in ViewIds : RemoveView(v)
  \/ workspaces = <<>> /\ NewWorkspaceObject(NoURI, FALSE, TRUE)
  \/ \E w \in 1..MaxWorkspaces : BuildWithContext("t1", w)
  \/ \E w \in 1..MaxWorkspaces : BuildWithContextDone("t1", w)

SpecContexts == InitBuild /\ [][NextContexts]_vars

\* The context the caller made for the call that made context k: the one
\* before the contexts of the call.
RequestOf(k) ==
  CHOOSE r \in 1..k :
    /\ contexts[r].role = "request" /\ contexts[r].of = contexts[k].of
    /\ \A q \in (r + 1)..k : contexts[q].role # "request"

\* No context of an initial load or of a build is done, and the background
\* context of a snapshot is done only if the snapshot has been torn down,
\* whatever has been cancelled by the callers.
DetachedFromCallers ==
  \A k \in 1..Len(contexts) :
    /\ contexts[k].role \in {"init", "build"} => ~Done(contexts, snapshots, k)
    /\ contexts[k].role = "background" =>
         (Done(contexts, snapshots, k) <=> snapshots[contexts[k].of].cancels > 0)

\* When NewView returns, the initial load of the view's snapshot still runs.
ReturnsBeforeLoad ==
  Len(snapshots') > Len(snapshots) => Len(snapshots') \in bg'

\* C29: cancelling the context NewView or a method that builds a workspace
\* was called with cancels neither the initial load of the view, nor the
\* background context of the snapshot, nor the build; the background context
\* is cancelled only when the snapshot is torn down; and createView returns
\* while the initial load runs.
C29_CallerCancelDetached == []DetachedFromCallers /\ [][ReturnsBeforeLoad]_vars

\* A caller has cancelled the context it called NewView with while the
\* initial load runs and the snapshot is in use, and another the context it
\* called a method of a workspace with while build holds buildMu.
C29_Witness ==
  /\ \E k \in 1..Len(contexts) :
       /\ contexts[k].role = "init"
       /\ contexts[RequestOf(k)].cancelled
       /\ contexts[k].of \in bg
       /\ snapshots[contexts[k].of].cancels = 0
  /\ \E k \in 1..Len(contexts) :
       /\ contexts[k].role = "build"
       /\ contexts[RequestOf(k)].cancelled
       /\ workspaces[contexts[k].of].buildMu # NoThread

\* ------------------------------------------------------------------------
\* Known and active modules

\* C31: a workspace whose module source is not legacy knows exactly its
\* active modules, when newWorkspace has made it and after every Clone.
C31_KnownIsActive ==
  \A w \in 1..Len(workspaces) :
    workspaces[w].moduleSource # legacyWorkspace =>
      KnownOf(workspaces, maps, w) = ActiveOf(workspaces, maps, w)

\* ------------------------------------------------------------------------
\* Clone and the checksum files

\* What a caller sees of a Clone of workspace w that returned r.
CloneOutcome(w, r) ==
  [same       |-> r.result = w,
   needReinit |-> r.needReinit,
   fields     |-> Fields(r.workspaces, r.maps, r.result)]

\* Change c is of a go.sum or go.work.sum whose directory's go.mod is not
\* among the active modules of workspace object w.
InactiveSum(wss, ms, w, c) ==
  /\ isGoSum(c.uri)
  /\ (Dir(c.uri) \o <<"go.mod">>) \notin ActiveOf(wss, ms, w)

\* C32: a changed go.sum or go.work.sum whose directory's go.mod is not
\* active in the workspace Clone returns (the active modules once the go.mod
\* changes of the call are applied) changes nothing: Clone returns what it
\* returns for the other changes alone.
C32_InactiveSumIgnored ==
  [][(last'.op = "Clone" /\ last'.result # 0) =>
       \A c \in last'.changes :
         InactiveSum(workspaces', maps', last'.result, c) =>
           CloneOutcome(last'.w,
                        [workspaces |-> workspaces', maps |-> maps',
                         result |-> last'.result,
                         needReinit |-> last'.needReinit])
             = CloneOutcome(last'.w,
                            Clone(workspaces, maps, last'.w, last'.changes \ {c}))]_vars

\* A Clone of a workspace with the go.mod of its root active was told that
\* this go.mod is deleted and its go.sum has changed.
C32_Witness ==
  /\ last.op = "Clone"
  /\ last.result \notin {0, last.w}
  /\ FileMod \in ActiveOf(workspaces, maps, last.w)
  /\ \E c \in last.changes : InactiveSum(workspaces, maps, last.result, c)
  /\ \E c \in last.changes : c.uri = FileMod /\ ~c.exists

\* ------------------------------------------------------------------------
\* Clone and the critical error

\* Change c gives the go.work or gopls.mod of workspace ws content that parses.
Reparsed(ws, c) ==
  /\ ws.moduleSource \in {goWorkWorkspace, goplsModWorkspace}
  /\ c.uri = uriForSource(ws.root, ws.explicitGowork, ws.moduleSource)
  /\ c.exists /\ ~c.isUnchanged
  /\ ~(IF ws.moduleSource = goWorkWorkspace
         THEN parseGoWork(ws.root, c.uri, c.content)
         ELSE parseGoplsMod(ws.root, c.uri, c.content)).err

\* A step in which Clone returns: the manifest and the files are as Clone
\* found them.
Cloned == last' # last /\ last'.op = "Clone" /\ last'.result # 0

\* C37: when a workspace made from a go.work or gopls.mod that did not parse
\* reports a critical error, the workspace a Clone of it returns reports one
\* too, unless the Clone was given content for the manifest that parses.
C37_CriticalErrorKept ==
  [][(/\ Cloned
      /\ workspaces[last'.w].moduleSource \in {goWorkWorkspace, goplsModWorkspace}
      /\ workspaces[last'.w].built /\ workspaces[last'.w].buildErr
      /\ criticalError(workspaces, maps, last'.w).err
      /\ \A c \in last'.changes : ~Reparsed(workspaces[last'.w], c)) =>
       criticalError(workspaces', maps', last'.result).err]_vars

\* ------------------------------------------------------------------------
\* Clone and the scan of the file system

VendorMod == DirWs \o <<"vendor", "m", "go.mod">>
TreeURIs  == CloneURIs \cup {VendorMod}

\* The tree has no go.work and no gopls.mod; go.mod files are at the root,
\* below it, in a vendor directory and outside the root, or not.
InitTree ==
  /\ views = <<>>
  /\ viewMap = EmptyViewMap
  /\ overlays = [u \in TreeURIs |-> NoOverlay]
  /\ view = <<>>
  /\ snapshots = <<>>
  /\ globalSnapshotID = 0
  /\ bg = {}
  /\ held = <<>>
  /\ \E m \in {"X", NoFile}, s \in {"X", NoFile}, v \in {"X", NoFile} :
       disk = [u \in TreeURIs |->
                 CASE u = FileMod   -> m
                   [] u = SubMod    -> s
                   [] u = VendorMod -> v
                   [] u = XMod      -> "X"
                   [] u = RootSum   -> "X"
                   [] OTHER         -> NoFile]
  /\ diskWrites = 0
  /\ crashed = FALSE
  /\ editor = [u \in TreeURIs |-> NotOpened]
  /\ last = [op |-> "init"]
  /\ NoCalls
  /\ NoWorkspaces
  /\ contexts = <<>>

\* A go.mod is made or deleted on disk, and Clone of the workspace in use
\* (the last one made) is given the change.
TreeChange(uri, text) ==
  /\ ~crashed
  /\ workspaces # <<>>
  /\ disk[uri] # text
  /\ disk' = [disk EXCEPT ![uri] = text]
  /\ LET w       == Len(workspaces)
         changes == {wsChange(uri, text, text # NoFile, TRUE, FALSE)}
         r       == Clone(workspaces, maps, w, changes)
     IN /\ workspaces[w].buildMu = NoThread
        /\ Len(r.workspaces) <= MaxTreeClones + 1
        /\ workspaces' = r.workspaces
        /\ maps' = r.maps
        /\ crashed' = r.panic
        /\ last' = [op |-> "Clone", w |-> w, changes |-> changes,
                    result |-> r.result, needReinit |-> r.needReinit]
  /\ UNCHANGED <<views, viewMap, overlays, view, snapshots, globalSnapshotID, bg,
                 held, diskWrites, editor, concVars, contexts>>

NextTree ==
  \/ workspaces = <<>> /\ NewWorkspaceObject(NoURI, FALSE, TRUE)
  \/ \E uri \in {FileMod, SubMod, VendorMod, XMod}, text \in {"X", NoFile} :
       TreeChange(uri, text)
  \/ \E w \in 1..(MaxTreeClones + 1) : Build(w)

SpecTree == InitTree /\ [][NextTree]_vars

\* C38: the active modules of the workspace in use, made by the scan and
\* cloned with every creation and deletion of a go.mod since, are the go.mod
\* files a scan of the tree as it is would find; none of them is in a
\* directory the scan skips.
C38_ActiveIsFreshScan ==
  (workspaces # <<>> /\ ~crashed) =>
    LET w == Len(workspaces)
    IN workspaces[w].moduleSource = fileSystemWorkspace =>
         /\ ActiveOf(workspaces, maps, w) = findModules(workspaces[w].root)
         /\ \A uri \in ActiveOf(workspaces, maps, w) :
              ~skipsDir(workspaces[w].root, uri)

\* ------------------------------------------------------------------------
\* Clone and needReinit

\* Change c is of the go.sum of a module active in workspace object w.
ActiveSum(wss, ms, w, c) ==
  isGoSum(c.uri) /\ (Dir(c.uri) \o <<"go.mod">>) \in ActiveOf(wss, ms, w)

\* Change c is of a go.mod below the root of workspace object w that is
\* among the active modules of w or of workspace object r.
ActiveGoMod(wss, ms, w, r, c) ==
  /\ isGoMod(c.uri) /\ InDir(wss[w].root, c.uri)
  /\ c.uri \in ActiveOf(wss, ms, w) \cup ActiveOf(wss, ms, r)

\* Change c is of a go.mod below the root that Clone of workspace ws takes
\* for active: any one unless the module source is legacy, the go.mod of the
\* root if it is.
TakenForActive(ws, c) ==
  /\ isGoMod(c.uri) /\ InDir(ws.root, c.uri)
  /\ ~c.isUnchanged
  /\ \/ ws.moduleSource # legacyWorkspace
     \/ c.uri = ws.root \o <<"go.mod">>

\* C39 as stated: Clone returns needReinit = true only with a new workspace
\* and a saved change of the manifest that parsed, of an active go.mod below
\* the root, or of the go.sum of an active module.
C39_ReinitOnlyRelevantSaved ==
  [][(last' # last /\ last'.op = "Clone" /\ last'.needReinit) =>
       /\ last'.result \notin {0, last'.w}
       /\ \E c \in last'.changes :
            /\ c.saved
            /\ \/ Reparsed(workspaces[last'.w], c)
               \/ ActiveGoMod(workspaces', maps', last'.w, last'.result, c)
               \/ ActiveSum(workspaces', maps', last'.result, c)]_vars

\* C39, amended: Clone returns needReinit = true only with a new workspace
\* and a saved change of the manifest that parsed, of a go.mod below the
\* root that Clone takes for active (any one unless the module source is
\* legacy), or of the go.sum of an active module.
C39_ReinitOnlySaved ==
  [][(last' # last /\ last'.op = "Clone" /\ last'.needReinit) =>
       /\ last'.result \notin {0, last'.w}
       /\ \E c \in last'.changes :
            /\ c.saved
            /\ \/ Reparsed(workspaces[last'.w], c)
               \/ TakenForActive(workspaces[last'.w], c)
               \/ ActiveSum(workspaces', maps', last'.result, c)]_vars

\* A Clone given a change of a go.mod it takes for active, in a file handle
\* that is not saved, has returned a new workspace and needReinit = false.
C39_Witness ==
  /\ last.op = "Clone"
  /\ last.result \notin {0, last.w}
  /\ ~last.needReinit
  /\ \E c \in last.changes : ~c.saved /\ TakenForActive(workspaces[last.w], c)

\* ------------------------------------------------------------------------
\* Session.ModifyFiles

\* The behaviours of SpecModify: those of SpecEdits with the changes made
\* through ModifyFiles.
NextModify ==
  \/ NewView(DirWs, FALSE, TRUE)
  \/ \E b \in EditBatches : ModifyFiles(b)

SpecModify == InitEdits /\ [][NextModify]_vars

\* C33: ModifyFiles returns what DidModifyFiles returns as its error for
\* the same changes, an error or none, and does not panic.
C33_ModifyFilesReturnsError ==
  (last.op = "ModifyFiles" /\ last.did # "panic") => last.ret = last.did

\* ------------------------------------------------------------------------
\* The snapshot of the best view

\* C40: DidModifyFiles never panics for want of a snapshot of the view it
\* reports a changed URI under: the best view among the views affected by
\* the URI has been invalidated in the call.
C40_BestViewHasSnapshot ==
  last.op = "DidModifyFiles" => ~last.noSnapshot

\* DidModifyFiles has returned for a change of a URI that affected two
\* views, and has reported the URI under the snapshot it made of the best
\* one, which is not the first of the two.
C40_Witness ==
  /\ last.op = "DidModifyFiles"
  /\ ~last.err
  /\ \E k \in 1..Len(last.changes) :
       LET uri  == last.changes[k].URI
           best == bestViewForURI(State, uri, last.affected[uri])
       IN /\ Len(last.affected[uri]) = 2
          /\ best # last.affected[uri][1]
          /\ view[best].snapshot > last.before
          /\ \E j \in 1..Len(last.uris[view[best].snapshot]) :
               last.uris[view[best].snapshot][j] = uri

\* ------------------------------------------------------------------------
\* The overlays after a call that failed

\* C36: when DidModifyFiles returns an error, the overlays are those of
\* before the call.
C36_FailedCallKeepsOverlays ==
  [][(last'.op = "DidModifyFiles" /\ last'.err /\ ~crashed') =>
       overlays' = overlays]_vars

\* ------------------------------------------------------------------------
\* The root re-check of DidModifyFiles

\* The behaviours of SpecRoots: views of the two folders are made, go.mod of
\* the workspace folder comes and goes on disk, the file watcher reports it,
\* and createView fails for some of the folders, or none, when DidModifyFiles
\* re-creates the views. What the operations return is kept.
NextRoots ==
  \/ \E f \in Folders : NewView(f, FALSE, FALSE)
  \/ \E v \in ViewIds : RemoveView(v)
  \/ \E t \in {"X", NoFile} : DiskWrite(FileMod, t)
  \/ \E b \in ViewBatches, failing \in SUBSET Folders : DidModifyFiles(b, failing, FALSE)

SpecRoots == InitRouting /\ [][NextRoots]_vars

\* C35: the root re-check of DidModifyFiles never reads a nil entry of the
\* view list, also when a view whose re-creation fails is removed from the
\* list during the loop, and leaves no nil entry in the list.
C35_RootCheckReadsNoNil ==
  /\ last.op = "DidModifyFiles" => ~last.nilView
  /\ ~crashed => \A k \in 1..Len(views) : views[k] # NilView

\* ------------------------------------------------------------------------
\* The manifest of a view's workspace is deleted

\* The session has one view, of the folder /ws; the workspace of its current
\* snapshot is the last workspace made.

\* NewView for /ws: createView makes the workspace with newWorkspace and the
\* first snapshot with it.
NewViewOfManifest ==
  /\ ~crashed
  /\ views = <<>>
  /\ workspaces = <<>>
  /\ LET c == createView(State, DirWs, 0, FALSE)
         o == newWorkspaceObject(maps, newWorkspace(DirWs, NoURI, FALSE, TRUE), FALSE)
     IN /\ InBounds(c.st)
        /\ SetState(Release([c.st EXCEPT !.views = Append(@, c.v),
                                         !.viewMap = EmptyViewMap], c.snapshot))
        /\ workspaces' = Append(workspaces, o.ws)
        /\ maps' = o.maps
        /\ last' = [op |-> "NewView", snapshot |-> c.snapshot]
  /\ UNCHANGED <<held, disk, diskWrites, editor, concVars, contexts>>

\* The workspaces once the views whose root changed are re-created: a view
\* that is re-created gets a workspace from newWorkspace.
recreatedWorkspace(wss, ms, recreated) ==
  IF recreated
    THEN LET o == newWorkspaceObject(ms, newWorkspace(DirWs, NoURI, FALSE, TRUE), FALSE)
         IN [workspaces |-> Append(wss, o.ws), maps |-> o.maps]
    ELSE [workspaces |-> wss, maps |-> ms]

\* snapshot.clone hands the changes to Clone of the snapshot's workspace.
cloneWorkspace(ws, relevant, changes) ==
  IF relevant
    THEN Clone(ws.workspaces, ws.maps, Len(ws.workspaces), changes)
    ELSE [workspaces |-> ws.workspaces, maps |-> ws.maps,
          result |-> Len(ws.workspaces), needReinit |-> FALSE, panic |-> FALSE]

\* The end of DidModifyFiles for the one view: st is the session after the
\* root re-check, ws the workspaces after it.
manifestInvalidate(st, c, ws, recreated) ==
  LET v        == st.views[1]
      relevant == relevantChange(st.view[v], c)
      fh       == GetFile(st.overlays, c.URI)
      r        == cloneWorkspace(ws, relevant,
                                 {wsChange(c.URI, fh.text, fh.text # NoFile, fh.saved,
                                           c.Action = Open \/ c.Action = Close)})
      inv      == IF relevant THEN invalidateContent(st, v, NoChanges)
                  ELSE [st |-> st, snapshot |-> NilSnapshot]
      released == IF relevant THEN Release(inv.st, inv.snapshot) ELSE st
  IN /\ InBounds(released)
     /\ SetState([released EXCEPT !.crashed = @ \/ r.panic])
     /\ workspaces' = r.workspaces
     /\ maps' = r.maps
     /\ last' = [op |-> "DidModifyFiles", changes |-> <<c>>,
                 recreated |-> recreated, relevant |-> relevant,
                 exists |-> fh.text # NoFile,
                 source |-> ws.workspaces[Len(ws.workspaces)].moduleSource,
                 panic |-> r.panic]

manifestRoots(st, c) ==
  manifestInvalidate(st, c, recreatedWorkspace(workspaces, maps, st.views # views),
                     st.views # views)

\* DidModifyFiles for one change the file watcher reports: no overlay is
\* touched, the view is re-created if the change is of a go.mod or go.work
\* and the source of its root is another one now, and the view, if the
\* change is relevant to it, is invalidated.
DidModifyManifest(c) ==
  /\ ~crashed
  /\ Len(views) = 1
  /\ LET o == updateOverlays(State, <<c>>)
     IN /\ ~o.err
        /\ manifestRoots(IF checkRoots(<<c>>)
                           THEN checkRootsLoop(o.st, 1, Len(o.st.views), {})
                           ELSE o.st, c)
  /\ UNCHANGED <<held, disk, diskWrites, editor, concVars, contexts>>

ManifestURIs == {RootWork, RootGopls, FileMod, SubMod}

NextManifest ==
  \/ NewViewOfManifest
  \/ \E uri \in ManifestURIs, a \in {Change, Delete} :
       DidModifyManifest(Mod(uri, a, TRUE, -1, NilText, ""))
  \/ \E uri \in {RootWork, RootGopls, FileMod}, text \in {NoFile, "X"} :
       WorkspaceDiskWrite(uri, text)

SpecManifest == InitClone /\ [][NextManifest]_vars

\* C34: DidModifyFiles never makes Clone panic for a workspace file that is
\* deleted: when the go.work or gopls.mod a view's workspace was made from is
\* gone, the view is re-created, with a new workspace, before a Clone is
\* given the change.
C34_DeletedManifestRecreates ==
  last.op = "DidModifyFiles" =>
    /\ ~last.panic
    /\ (/\ last.relevant /\ ~last.exists /\ ~last.recreated
        /\ last.source \in {goWorkWorkspace, goplsModWorkspace}) =>
         last.changes[1].URI #
           uriForSource(DirWs, NoURI, last.source)

====
